---- MODULE Spec2Model ----
(***************************************************************************)
(* Narrow-phase contact generation and spatial queries of sdf_peck:        *)
(* spheres, capsules and implicit surfaces (signed-distance fields).       *)
(*                                                                         *)
(* f32 values are modelled as exact rationals n/d in lowest terms (d > 0), *)
(* extended with the IEEE non-finite values: NaN is 0/0, +inf is 1/0 and   *)
(* -inf is -1/0.  Signed zeros are not distinguished.  A square root that  *)
(* is not rational is rounded down to a multiple of 1/SqrtGrid.  A sum,    *)
(* product or quotient of magnitude ExactBelow or more is rounded to the   *)
(* 24-bit significand of f32 (to nearest, ties to even): up there the      *)
(* spacing of f32 values exceeds the steps the code takes.                 *)
(***************************************************************************)
EXTENDS Integers, Sequences, FiniteSets, TLC

\* ------------------------------------------------------------------ f32

Abs(x) == IF x < 0 THEN -x ELSE x

RECURSIVE Gcd(_, _)
Gcd(a, b) == IF b = 0 THEN a ELSE Gcd(b, a % b)

\* The rational n/d (d # 0) in lowest terms.
Q(n, d) ==
    LET g == Gcd(Abs(n), Abs(d))
        s == IF d < 0 THEN -1 ELSE 1
    IN  [n |-> (s * n) \div g, d |-> (s * d) \div g]

NaN == [n |-> 0, d |-> 0]
Inf == [n |-> 1, d |-> 0]
NegInf == [n |-> -1, d |-> 0]

Zero == [n |-> 0, d |-> 1]
One == [n |-> 1, d |-> 1]
Two == [n |-> 2, d |-> 1]
Half == [n |-> 1, d |-> 2]

IsNaN(a) == a.d = 0 /\ a.n = 0
IsInf(a) == a.d = 0 /\ a.n # 0
IsFinite(a) == a.d # 0
Sign(k) == IF k > 0 THEN 1 ELSE IF k < 0 THEN -1 ELSE 0

FNeg(a) == [n |-> -a.n, d |-> a.d]

\* Results below this magnitude are kept exact; from it on they are rounded
\* to f32.
ExactBelow == 2048

\* floor(log2(i)) + e for an integer i >= 1
RECURSIVE Log2From(_, _)
Log2From(i, e) == IF i < 2 THEN e ELSE Log2From(i \div 2, e + 1)

\* round to nearest, ties to even: `whole` units and rest/unit of one more
RoundHalfEven(whole, rest, unit) ==
    IF 2 * rest > unit \/ (2 * rest = unit /\ whole % 2 = 1) THEN whole + 1
    ELSE whole

\* whole + rem/d (whole >= ExactBelow, 0 <= rem < d, binary exponent e) on
\* the grid of f32: multiples of 2^(e - 23)
F32Grid(whole, rem, d, e) ==
    IF e <= 23
    THEN Q(RoundHalfEven(whole * 2^(23 - e) + (rem * 2^(23 - e)) \div d,
                         (rem * 2^(23 - e)) % d, d),
           2^(23 - e))
    ELSE Q(2^(e - 23) * RoundHalfEven(whole \div 2^(e - 23),
                                      2 * (whole % 2^(e - 23))
                                          + (IF rem > 0 THEN 1 ELSE 0),
                                      2 * 2^(e - 23)),
           1)

\* the f32 nearest to the finite value n/d (d > 0)
F32(n, d) ==
    IF Abs(n) \div d < ExactBelow THEN Q(n, d)
    ELSE IF n < 0
    THEN FNeg(F32Grid(Abs(n) \div d, Abs(n) % d, d, Log2From(Abs(n) \div d, 0)))
    ELSE F32Grid(n \div d, n % d, d, Log2From(n \div d, 0))

FAdd(a, b) ==
    IF IsNaN(a) \/ IsNaN(b) THEN NaN
    ELSE IF IsInf(a) /\ IsInf(b) THEN (IF a.n = b.n THEN a ELSE NaN)
    ELSE IF IsInf(a) THEN a
    ELSE IF IsInf(b) THEN b
    ELSE LET g == Gcd(a.d, b.d)
         IN  F32(a.n * (b.d \div g) + b.n * (a.d \div g), (a.d \div g) * b.d)

FSub(a, b) == FAdd(a, FNeg(b))

FMul(a, b) ==
    IF IsNaN(a) \/ IsNaN(b) THEN NaN
    ELSE IF IsInf(a) \/ IsInf(b)
         THEN (IF a.n = 0 \/ b.n = 0 THEN NaN
               ELSE [n |-> Sign(a.n) * Sign(b.n), d |-> 0])
    ELSE F32((a.n \div Gcd(Abs(a.n), b.d)) * (b.n \div Gcd(Abs(b.n), a.d)),
             (a.d \div Gcd(Abs(b.n), a.d)) * (b.d \div Gcd(Abs(a.n), b.d)))

FDiv(a, b) ==
    IF IsNaN(a) \/ IsNaN(b) THEN NaN
    ELSE IF IsInf(a) THEN (IF IsInf(b) THEN NaN
                           ELSE [n |-> a.n * (IF b.n < 0 THEN -1 ELSE 1), d |-> 0])
    ELSE IF IsInf(b) THEN Zero
    ELSE IF b.n = 0 THEN [n |-> Sign(a.n), d |-> 0]
    ELSE F32(a.n * b.d * Sign(b.n), a.d * Abs(b.n))

\* IEEE comparisons: every comparison with NaN is false.
\* an/ad < bn/bd for ad, bd > 0, by continued fractions (no large products).
RECURSIVE RatLt(_, _, _, _)
RatLt(an, ad, bn, bd) ==
    LET qa == an \div ad
        qb == bn \div bd
        ra == an - qa * ad
        rb == bn - qb * bd
    IN  IF qa # qb THEN qa < qb
        ELSE IF rb = 0 THEN FALSE
        ELSE IF ra = 0 THEN TRUE
        ELSE RatLt(bd, rb, ad, ra)

Small(k) == -30000 < k /\ k < 30000

FLt(a, b) ==
    /\ ~IsNaN(a)
    /\ ~IsNaN(b)
    /\ IF IsInf(a) \/ IsInf(b)
       THEN (IF IsInf(a) /\ IsInf(b) THEN a.n < b.n
             ELSE IF IsInf(a) THEN a.n < 0 ELSE b.n > 0)
       ELSE IF Small(a.n) /\ Small(b.n) /\ Small(a.d) /\ Small(b.d)
            THEN a.n * b.d < b.n * a.d
            ELSE RatLt(a.n, a.d, b.n, b.d)

FEq(a, b) == ~IsNaN(a) /\ ~IsNaN(b) /\ a = b
FLe(a, b) == FLt(a, b) \/ FEq(a, b)
FGt(a, b) == FLt(b, a)
FGe(a, b) == FLe(b, a)

\* f32::max, f32::min: a NaN operand is ignored.
FMax(a, b) == IF IsNaN(a) THEN b ELSE IF IsNaN(b) THEN a ELSE IF FLt(a, b) THEN b ELSE a
FMin(a, b) == IF IsNaN(a) THEN b ELSE IF IsNaN(b) THEN a ELSE IF FLt(b, a) THEN b ELSE a

\* f32::clamp asserts lo <= hi (and panics otherwise); a NaN value stays NaN.
ClampPanics(lo, hi) == ~FLe(lo, hi)
FClamp(a, lo, hi) == IF FLt(a, lo) THEN lo ELSE IF FGt(a, hi) THEN hi ELSE a

FAbs(a) == [n |-> Abs(a.n), d |-> a.d]

\* The precision to which an irrational square root is rounded: the root is
\* rounded down to about one part in SqrtGrid.
SqrtGrid == 64

RECURSIVE ISqrtFrom(_, _)
ISqrtFrom(x, r) ==
    LET y == (r + x \div r) \div 2
    IN  IF y >= r THEN r ELSE ISqrtFrom(x, y)

\* floor of the square root of a natural number (Newton's iteration).
ISqrt(x) == IF x < 2 THEN x ELSE ISqrtFrom(x, x)

IsSquare(x) == ISqrt(x) * ISqrt(x) = x

RECURSIVE Pow2(_)
Pow2(k) == IF k = 0 THEN 1 ELSE 2 * Pow2(k - 1)

\* sqrt(a) for a positive finite a = 4^-j * b: b is scaled by 4 until its
\* integer part has a root of at least SqrtGrid.
RECURSIVE SqrtScaled(_, _)
SqrtScaled(b, j) ==
    IF b.n \div b.d >= SqrtGrid * SqrtGrid \/ j >= 24
    THEN Q(ISqrt(b.n \div b.d), Pow2(j))
    ELSE SqrtScaled(Q(4 * b.n, b.d), j + 1)

FSqrt(a) ==
    IF IsNaN(a) \/ a.n < 0 THEN NaN
    ELSE IF IsInf(a) THEN a
    ELSE IF IsSquare(a.n) /\ IsSquare(a.d) THEN Q(ISqrt(a.n), ISqrt(a.d))
    ELSE SqrtScaled(a, 0)

\* ----------------------------------------------------------------- Vec3

Vec(x, y, z) == <<x, y, z>>
VZero == Vec(Zero, Zero, Zero)
VY == Vec(Zero, One, Zero)
VNaN == Vec(NaN, NaN, NaN)

VAdd(u, v) == Vec(FAdd(u[1], v[1]), FAdd(u[2], v[2]), FAdd(u[3], v[3]))
VSub(u, v) == Vec(FSub(u[1], v[1]), FSub(u[2], v[2]), FSub(u[3], v[3]))
VNeg(u) == Vec(FNeg(u[1]), FNeg(u[2]), FNeg(u[3]))
VScale(u, k) == Vec(FMul(u[1], k), FMul(u[2], k), FMul(u[3], k))
VDivS(u, k) == Vec(FDiv(u[1], k), FDiv(u[2], k), FDiv(u[3], k))
Dot(u, v) == FAdd(FAdd(FMul(u[1], v[1]), FMul(u[2], v[2])), FMul(u[3], v[3]))
LengthSquared(u) == Dot(u, u)
Length(u) == FSqrt(LengthSquared(u))
Distance(u, v) == Length(VSub(u, v))

\* glam's PartialEq on vectors: component-wise IEEE equality, so a vector
\* with a NaN component is equal to nothing, itself included.
VEq(u, v) == FEq(u[1], v[1]) /\ FEq(u[2], v[2]) /\ FEq(u[3], v[3])
VHasNaN(u) == IsNaN(u[1]) \/ IsNaN(u[2]) \/ IsNaN(u[3])

\* ------------------------------------------------------------ rotations
\* A rotation is a signed permutation of the axes: component i of the
\* rotated vector is sgn * (component ax of the argument).

RotId == <<[ax |-> 1, sgn |-> 1], [ax |-> 2, sgn |-> 1], [ax |-> 3, sgn |-> 1]>>
\* a quarter turn about Z: +Y goes to -X
RotZ90 == <<[ax |-> 2, sgn |-> -1], [ax |-> 1, sgn |-> 1], [ax |-> 3, sgn |-> 1]>>
\* a quarter turn about X: +Y goes to +Z
RotX90 == <<[ax |-> 1, sgn |-> 1], [ax |-> 3, sgn |-> -1], [ax |-> 2, sgn |-> 1]>>
\* a half turn about X: +Y goes to -Y
RotX180 == <<[ax |-> 1, sgn |-> 1], [ax |-> 2, sgn |-> -1], [ax |-> 3, sgn |-> -1]>>

Comp(r, v, i) == IF r[i].sgn = 1 THEN v[r[i].ax] ELSE FNeg(v[r[i].ax])
Rotate(r, v) == Vec(Comp(r, v, 1), Comp(r, v, 2), Comp(r, v, 3))

Inverse(r) ==
    [j \in 1..3 |-> LET i == CHOOSE k \in 1..3 : r[k].ax = j
                    IN  [ax |-> i, sgn |-> r[i].sgn]]

Iso(t, r) == [translation |-> t, rotation |-> r]

\* ------------------------------------------------------- field data
\* The distance and gradient queries of the external field data, in the
\* surface's own unscaled frame.  Two fields are modelled: "floor", the
\* half-space y <= 0, and "ball", the unit ball centred at the origin.

SdfDistance(sdf, p) ==
    IF sdf = "floor" THEN p[2] ELSE FSub(Length(p), One)

SdfGradient(sdf, p) ==
    IF sdf = "floor" THEN VY
    ELSE IF FEq(Length(p), Zero) \/ VHasNaN(p) THEN VY
    ELSE VDivS(p, Length(p))

\* ---------------------------------------------------------- contacts
\* A value computed once and used several times is passed on as an operator
\* argument: every routine below is a chain of such steps, in source order.

Contact(point, anchor1, anchor2, normal, penetration) ==
    [point |-> point, anchor1 |-> anchor1, anchor2 |-> anchor2,
     normal |-> normal, penetration |-> penetration]

\* ManifoldAdder::normal and ManifoldAdder::flipped
AdderNormal(manifolds) == [manifolds |-> manifolds, flipped |-> FALSE]
AdderFlipped(manifolds) == [manifolds |-> manifolds, flipped |-> TRUE]

\* ManifoldAdder::push: the adder after appending one contact.
push(adder, point, anchor_a, anchor_b, normal, penetration) ==
    [adder EXCEPT !.manifolds =
        Append(@, Contact(point,
                          IF adder.flipped THEN anchor_b ELSE anchor_a,
                          IF adder.flipped THEN anchor_a ELSE anchor_b,
                          IF adder.flipped THEN VNeg(normal) ELSE normal,
                          penetration))]

\* The tail shared by the pair routines:
\*   let anchor2 = world_point - other_iso.translation;
\*   adder.push(world_point, anchor1, anchor2, normal, penetration);
PushAt(adder, other_translation, anchor1, normal, penetration, world_point) ==
    push(adder, world_point, anchor1, VSub(world_point, other_translation), normal,
         penetration)

\*   let world_point = self_iso.translation + anchor1;
Emit(adder, self_translation, other_translation, anchor1, normal, penetration) ==
    PushAt(adder, other_translation, anchor1, normal, penetration,
           VAdd(self_translation, anchor1))

\* What a get_collisions call leaves behind: the output list, and whether
\* the call panicked.
Returned(adder) == [manifolds |-> adder.manifolds, panic |-> FALSE]
Panicked(adder) == [manifolds |-> adder.manifolds, panic |-> TRUE]

\* ------------------------------------------------------------- shapes

Sphere(radius) ==
    [kind |-> "Sphere", radius |-> radius, half_length |-> Zero, handle |-> "none"]
\* Capsule3d::new(radius, length)
Capsule3d(radius, length) ==
    [kind |-> "Capsule", radius |-> radius, half_length |-> FMul(length, Half),
     handle |-> "none"]
Arbitrary(handle) ==
    [kind |-> "Arbitrary", radius |-> Zero, half_length |-> Zero, handle |-> handle]

ScaledIso(iso, scale) ==
    [translation |-> iso.translation, rotation |-> iso.rotation, scale |-> scale]

\* ---- impl Collider<Sphere> for Sphere

\* `if self_to_other == Vec3A::NAN { self_to_other = Vec3A::Y; }`
SphereSphere_normal(quotient) == IF VEq(quotient, VNaN) THEN VY ELSE quotient

\* SphereSphere_push with the contact point put dist, not dist/2, past the
\* surface of the first sphere
SphereSphere_push_full_depth(self, self_iso, other_iso, adder, dist, self_to_other) ==
    Returned(Emit(adder, self_iso.translation, other_iso.translation,
                  VScale(self_to_other, FAdd(self.radius, dist)),
                  self_to_other, FNeg(dist)))

SphereSphere_push(self, self_iso, other_iso, adder, dist, self_to_other) ==
    Returned(Emit(adder, self_iso.translation, other_iso.translation,
                  VScale(self_to_other, FAdd(self.radius, FMul(dist, Half))),
                  self_to_other, FNeg(dist)))

\* `if dist > pred_dist { return; }`, then the normal
SphereSphere_test(self, self_iso, other_iso, adder, pred_dist, offset, dist) ==
    IF FGt(dist, pred_dist)
    THEN Returned(adder)
    ELSE SphereSphere_push(self, self_iso, other_iso, adder, dist,
             SphereSphere_normal(
                 VDivS(VSub(other_iso.translation, self_iso.translation), offset)))

SphereSphere_offset(self, self_iso, other, other_iso, adder, pred_dist, offset) ==
    SphereSphere_test(self, self_iso, other_iso, adder, pred_dist, offset,
                      FSub(FSub(offset, self.radius), other.radius))

SphereSphere_get_collisions(self, self_iso, other, other_iso, adder, pred_dist) ==
    SphereSphere_offset(self, self_iso, other, other_iso, adder, pred_dist,
                        Distance(self_iso.translation, other_iso.translation))

\* ---- impl Collider<ExecutableSdf3d> for Sphere

SphereSdf_push(self, self_iso, sdf_iso, adder, world_normal, pen) ==
    Returned(Emit(adder, self_iso.translation, sdf_iso.translation,
                  VScale(world_normal, FSub(self.radius, FMul(pen, Half))),
                  world_normal, pen))

\* SphereSdf_test with the margin subtracted from the radius
SphereSdf_test_margin_inward(self, self_iso, sdf, sdf_iso, adder, pred_dist, sdf_local_pos, distance) ==
    IF FLt(distance, FSub(self.radius, pred_dist))
    THEN SphereSdf_push(self, self_iso, sdf_iso, adder,
                        Rotate(sdf_iso.rotation, VNeg(SdfGradient(sdf, sdf_local_pos))),
                        FSub(self.radius, distance))
    ELSE Returned(adder)

\* `if distance < self.radius + pred_dist { ... }`
SphereSdf_test(self, self_iso, sdf, sdf_iso, adder, pred_dist, sdf_local_pos, distance) ==
    IF FLt(distance, FAdd(self.radius, pred_dist))
    THEN SphereSdf_push(self, self_iso, sdf_iso, adder,
                        Rotate(sdf_iso.rotation, VNeg(SdfGradient(sdf, sdf_local_pos))),
                        FSub(self.radius, distance))
    ELSE Returned(adder)

SphereSdf_sample(self, self_iso, sdf, sdf_iso, adder, pred_dist, sdf_local_pos) ==
    SphereSdf_test(self, self_iso, sdf, sdf_iso, adder, pred_dist, sdf_local_pos,
                   FMul(SdfDistance(sdf, sdf_local_pos), sdf_iso.scale))

SphereSdf_get_collisions(self, self_iso, sdf, sdf_iso, adder, pred_dist) ==
    SphereSdf_sample(self, self_iso, sdf, sdf_iso, adder, pred_dist,
        VDivS(Rotate(Inverse(sdf_iso.rotation),
                     VSub(self_iso.translation, sdf_iso.translation)),
              sdf_iso.scale))

\* ---- impl Collider<Capsule3d> for Sphere

\* Isometry::translate: the isometry followed by a translation given in
\* its own frame.
translate(iso, v) ==
    Iso(VAdd(iso.translation, Rotate(iso.rotation, v)), iso.rotation)

SphereCapsule_project(self, self_iso, other, other_iso, adder, pred_dist, t) ==
    SphereSphere_get_collisions(self, self_iso, Sphere(other.radius),
                                translate(other_iso, Vec(Zero, t, Zero)), adder,
                                pred_dist)

SphereCapsule_get_collisions(self, self_iso, other, other_iso, adder, pred_dist) ==
    IF ClampPanics(FNeg(other.half_length), other.half_length)
    THEN Panicked(adder)
    ELSE SphereCapsule_project(self, self_iso, other, other_iso, adder, pred_dist,
             FClamp(Dot(VSub(self_iso.translation, other_iso.translation),
                        Rotate(other_iso.rotation, VY)),
                    FNeg(other.half_length), other.half_length))

\* ---- closest_points_on_segments

\* f32::EPSILON, 2^-23
EPSILON == [n |-> 1, d |-> 8388608]

\* The binary exponent of a positive finite value x: 2^e <= x < 2^(e+1),
\* searched from e upwards or downwards.
RECURSIVE ExponentFrom(_, _)
ExponentFrom(x, e) ==
    IF FLt(x, IF e >= 0 THEN Q(Pow2(e), 1) ELSE Q(1, Pow2(-e)))
    THEN ExponentFrom(x, e - 1)
    ELSE IF FGe(x, IF e >= -1 THEN Q(Pow2(e + 1), 1) ELSE Q(1, Pow2(-e - 1)))
    THEN ExponentFrom(x, e + 1)
    ELSE e

UlpAt(e) == IF e >= 0 THEN Q(Pow2(e), 1) ELSE Q(1, Pow2(-e))

\* The spacing of the f32 values around the positive finite value x.
Ulp(x) == UlpAt(ExponentFrom(x, 0) - 23)

\* approx::ulps_eq!(x, y) with its defaults (epsilon = f32::EPSILON,
\* max_ulps = 4) for non-negative finite x, y.
ulps_eq(x, y) ==
    \/ FLe(FAbs(FSub(x, y)), EPSILON)
    \/ FLe(FAbs(FSub(x, y)), FMul([n |-> 4, d |-> 1], Ulp(FMax(x, y))))

\* closest_points_reproject without the tail: t is left as computed
closest_points_reproject_unclamped(a, c, b, s, t) == <<s, t>>

\* the clamp-and-reproject tail
closest_points_reproject(a, c, b, s, t) ==
    IF FLt(t, Zero) THEN <<FClamp(FDiv(FNeg(c), a), Zero, One), Zero>>
    ELSE IF FGt(t, One) THEN <<FClamp(FDiv(FSub(b, c), a), Zero, One), One>>
    ELSE <<s, t>>

closest_points_t(a, e, c, f, b, s) ==
    closest_points_reproject(a, c, b, s, FDiv(FAdd(FMul(b, s), f), e))

closest_points_s(a, e, c, f, b, ae, bb) ==
    closest_points_t(a, e, c, f, b,
        IF FGt(FSub(ae, bb), EPSILON) /\ ~ulps_eq(ae, bb)
        THEN FClamp(FDiv(FSub(FMul(b, f), FMul(c, e)), FSub(ae, bb)), Zero, One)
        ELSE Zero)

closest_points_cases(to_end1, to_end2, a, e, c, f) ==
    IF FLe(a, EPSILON) /\ FLe(e, EPSILON) THEN <<Zero, Zero>>
    ELSE IF FLe(a, EPSILON) THEN <<Zero, FClamp(FDiv(f, e), Zero, One)>>
    ELSE IF FLe(e, EPSILON) THEN <<FClamp(FDiv(FNeg(c), a), Zero, One), Zero>>
    ELSE closest_points_s(a, e, c, f, Dot(to_end1, to_end2), FMul(a, e),
                          FMul(Dot(to_end1, to_end2), Dot(to_end1, to_end2)))

closest_points_r(to_end1, to_end2, r) ==
    closest_points_cases(to_end1, to_end2, LengthSquared(to_end1),
                         LengthSquared(to_end2), Dot(to_end1, r), Dot(to_end2, r))

\* closest_points_on_segments: the parameters (s, t) of the closest points
\* of the segments (origin1, to_end1) and (origin2, to_end2).
closest_points_on_segments(seg1, seg2) ==
    closest_points_r(seg1[2], seg2[2], VSub(seg1[1], seg2[1]))

\* ---- impl Collider<Capsule3d> for Capsule3d

CapsuleCapsule_push(self, self_iso, other_iso, adder, up1, p1, dist, world_normal) ==
    Returned(Emit(adder, self_iso.translation, other_iso.translation,
                  VAdd(VScale(up1, FSub(p1, self.half_length)),
                       VScale(world_normal, FAdd(self.radius, FMul(dist, Half)))),
                  world_normal, FNeg(dist)))

CapsuleCapsule_test(self, self_iso, other_iso, adder, pred_dist, up1, p1, wp1, wp2, offset, dist) ==
    IF FGt(dist, pred_dist)
    THEN Returned(adder)
    ELSE CapsuleCapsule_push(self, self_iso, other_iso, adder, up1, p1, dist,
             IF FEq(offset, Zero) THEN VY ELSE VDivS(VSub(wp2, wp1), offset))

CapsuleCapsule_offset(self, self_iso, other, other_iso, adder, pred_dist, up1, p1, wp1, wp2, offset) ==
    CapsuleCapsule_test(self, self_iso, other_iso, adder, pred_dist, up1, p1, wp1, wp2,
                        offset, FSub(FSub(offset, self.radius), other.radius))

CapsuleCapsule_points(self, self_iso, other, other_iso, adder, pred_dist, up1, p1, wp1, wp2) ==
    CapsuleCapsule_offset(self, self_iso, other, other_iso, adder, pred_dist, up1, p1,
                          wp1, wp2, Distance(wp1, wp2))

CapsuleCapsule_closest(self, self_iso, other, other_iso, adder, pred_dist, up1, seg1, seg2, ps) ==
    CapsuleCapsule_points(self, self_iso, other, other_iso, adder, pred_dist, up1,
                          ps[1],
                          VAdd(seg1[1], VScale(seg1[2], ps[1])),
                          VAdd(seg2[1], VScale(seg2[2], ps[2])))

CapsuleCapsule_segments(self, self_iso, other, other_iso, adder, pred_dist, up1, seg1, seg2) ==
    CapsuleCapsule_closest(self, self_iso, other, other_iso, adder, pred_dist, up1,
                           seg1, seg2, closest_points_on_segments(seg1, seg2))

CapsuleCapsule_ups(self, self_iso, other, other_iso, adder, pred_dist, up1, up2) ==
    CapsuleCapsule_segments(self, self_iso, other, other_iso, adder, pred_dist, up1,
        <<VSub(self_iso.translation, VScale(up1, self.half_length)),
          VScale(VScale(up1, self.half_length), Two)>>,
        <<VSub(other_iso.translation, VScale(up2, other.half_length)),
          VScale(VScale(up2, other.half_length), Two)>>)

CapsuleCapsule_get_collisions(self, self_iso, other, other_iso, adder, pred_dist) ==
    CapsuleCapsule_ups(self, self_iso, other, other_iso, adder, pred_dist,
                       Rotate(self_iso.rotation, VY), Rotate(other_iso.rotation, VY))

\* ---- march_edge

MINIMUM_STEP == [n |-> 1, d |-> 1000]

\* MarchResult::Hit(toi, dist) and MarchResult::Closest(toi, dist)
Hit(toi, dist) == [tag |-> "Hit", toi |-> toi, dist |-> dist]
Closest(toi, dist) == [tag |-> "Closest", toi |-> toi, dist |-> dist]

\* `traveled += (distance - radius).max(MINIMUM_STEP)`
march_advance(radius, traveled, distance) ==
    FAdd(traveled, FMax(FSub(distance, radius), MINIMUM_STEP))

\* march_closest keeping the latest of the samples with the least distance
march_closest_latest(traveled, closest, distance) ==
    IF FLe(distance, closest[2]) THEN <<traveled, distance>> ELSE closest

\* `if distance < closest.1 { closest = (traveled, distance) }`
march_closest(traveled, closest, distance) ==
    IF FLt(distance, closest[2]) THEN <<traveled, distance>> ELSE closest

RECURSIVE march_loop(_, _, _, _, _, _, _)
RECURSIVE march_step(_, _, _, _, _, _, _, _)

\* The body of one iteration, with the sampled distance in hand.
march_step(sdf, local_start, local_direction, radius, length, traveled, closest, distance) ==
    IF FLe(distance, radius)
    THEN Hit(traveled, distance)
    ELSE march_loop(sdf, local_start, local_direction, radius, length,
                    march_advance(radius, traveled, distance),
                    march_closest(traveled, closest, distance))

\* `while traveled < length { ... }`
march_loop(sdf, local_start, local_direction, radius, length, traveled, closest) ==
    IF FLt(traveled, length)
    THEN march_step(sdf, local_start, local_direction, radius, length, traveled,
                    closest,
                    SdfDistance(sdf, VAdd(local_start,
                                          VScale(local_direction, traveled))))
    ELSE Closest(closest[1], closest[2])

march_edge(sdf, local_start, local_direction, radius, length) ==
    march_loop(sdf, local_start, local_direction, radius, length, Zero, <<Zero, Inf>>)

\* ---- impl Collider<ExecutableSdf3d> for Capsule3d

CapsuleSdf_push(self, self_iso, sdf_iso, adder, along, world_normal, pen) ==
    Emit(adder, self_iso.translation, sdf_iso.translation,
         VAdd(along, VScale(world_normal, FSub(self.radius, FMul(pen, Half)))),
         world_normal, pen)

\* `if dist < self.radius + pred_dist { ... }`, the block that follows each
\* march; `along` is the axial part of anchor1.
CapsuleSdf_contact(self, self_iso, sdf, sdf_iso, adder, pred_dist, sdf_local_min_point, along, dist) ==
    IF FLt(dist, FAdd(self.radius, pred_dist))
    THEN CapsuleSdf_push(self, self_iso, sdf_iso, adder, along,
             Rotate(sdf_iso.rotation, VNeg(SdfGradient(sdf, sdf_local_min_point))),
             FSub(self.radius, dist))
    ELSE adder

\* the second march's result
CapsuleSdf_second(self, self_iso, sdf, sdf_iso, adder, pred_dist, sdf_local_up, start, res) ==
    Returned(CapsuleSdf_contact(self, self_iso, sdf, sdf_iso, adder, pred_dist,
                 VSub(start, VScale(sdf_local_up, res.toi)),
                 VScale(sdf_local_up, FSub(self.half_length, res.toi)),
                 res.dist))

\* the second march, from the far end, over what the first left
CapsuleSdf_rest(self, self_iso, sdf, sdf_iso, adder, pred_dist, sdf_local_up, total, start) ==
    CapsuleSdf_second(self, self_iso, sdf, sdf_iso, adder, pred_dist, sdf_local_up,
                      start,
                      march_edge(sdf, start, VNeg(sdf_local_up), self.radius, total))

\* CapsuleSdf_first leaving the whole axis to the second march
CapsuleSdf_first_full_budget(self, self_iso, sdf, sdf_iso, adder, pred_dist, sdf_local_center, sdf_local_up, start, res) ==
    CapsuleSdf_rest(self, self_iso, sdf, sdf_iso,
        CapsuleSdf_contact(self, self_iso, sdf, sdf_iso, adder, pred_dist,
            VAdd(start, VScale(sdf_local_up, res.toi)),
            VScale(sdf_local_up, FSub(res.toi, self.half_length)),
            res.dist),
        pred_dist, sdf_local_up,
        FMul(self.half_length, Two),
        VAdd(sdf_local_center, VScale(sdf_local_up, self.half_length)))

\* the first march's result: its contact, and the length left over
CapsuleSdf_first(self, self_iso, sdf, sdf_iso, adder, pred_dist, sdf_local_center, sdf_local_up, start, res) ==
    CapsuleSdf_rest(self, self_iso, sdf, sdf_iso,
        CapsuleSdf_contact(self, self_iso, sdf, sdf_iso, adder, pred_dist,
            VAdd(start, VScale(sdf_local_up, res.toi)),
            VScale(sdf_local_up, FSub(res.toi, self.half_length)),
            res.dist),
        pred_dist, sdf_local_up,
        IF res.tag = "Hit" THEN FSub(FMul(self.half_length, Two), res.toi) ELSE Zero,
        VAdd(sdf_local_center, VScale(sdf_local_up, self.half_length)))

CapsuleSdf_start(self, self_iso, sdf, sdf_iso, adder, pred_dist, sdf_local_center, sdf_local_up, start) ==
    CapsuleSdf_first(self, self_iso, sdf, sdf_iso, adder, pred_dist, sdf_local_center,
                     sdf_local_up, start,
                     march_edge(sdf, start, sdf_local_up, self.radius,
                                FMul(self.half_length, Two)))

CapsuleSdf_up(self, self_iso, sdf, sdf_iso, adder, pred_dist, sdf_local_center, sdf_local_up) ==
    CapsuleSdf_start(self, self_iso, sdf, sdf_iso, adder, pred_dist, sdf_local_center,
                     sdf_local_up,
                     VSub(sdf_local_center, VScale(sdf_local_up, self.half_length)))

\* `if center_dist > self.radius + self.half_length + pred_dist { return; }`
CapsuleSdf_center(self, self_iso, sdf, sdf_iso, adder, pred_dist, sdf_local_center) ==
    IF FGt(SdfDistance(sdf, sdf_local_center),
           FAdd(FAdd(self.radius, self.half_length), pred_dist))
    THEN Returned(adder)
    ELSE CapsuleSdf_up(self, self_iso, sdf, sdf_iso, adder, pred_dist,
             sdf_local_center,
             VDivS(Rotate(Inverse(sdf_iso.rotation), Rotate(self_iso.rotation, VY)),
                   sdf_iso.scale))

CapsuleSdf_get_collisions(self, self_iso, sdf, sdf_iso, adder, pred_dist) ==
    CapsuleSdf_center(self, self_iso, sdf, sdf_iso, adder, pred_dist,
        VDivS(Rotate(Inverse(sdf_iso.rotation),
                     VSub(self_iso.translation, sdf_iso.translation)),
              sdf_iso.scale))

\* ---------------------------------------------------------- colliders

\* SdfCollider::sphere, SdfCollider::capsule, SdfCollider::sdf
SdfCollider_sphere(radius) == [collider |-> Sphere(radius), scale |-> One]
SdfCollider_capsule(radius, length) ==
    [collider |-> Capsule3d(radius, length), scale |-> One]
SdfCollider_sdf(handle) == [collider |-> Arbitrary(handle), scale |-> One]

\* ScalableCollider::set_scale: `self.scale = scale.min_element()`
set_scale(self, scale) ==
    [self EXCEPT !.scale = FMin(scale[1], FMin(scale[2], scale[3]))]

\* `s.radius *= scale`
ScaledSphere(col) == Sphere(FMul(col.collider.radius, col.scale))
\* `c.radius *= scale; c.half_length *= scale`
ScaledCapsule(col) ==
    [kind |-> "Capsule", radius |-> FMul(col.collider.radius, col.scale),
     half_length |-> FMul(col.collider.half_length, col.scale), handle |-> "none"]

\* The implicit-surface data behind each handle, once its asset is processed.
Handles == {"h1", "h2"}
FieldOf(handle) == IF handle = "h1" THEN "floor" ELSE "ball"

\* `context.get(handle.id())` answers Some exactly for the processed assets;
\* a context is the set of handles it resolves.
Resolves(context, handle) == handle \in context

\* What a contact_manifolds_with_context call leaves behind: the output
\* list, whether it panicked, and whether it logged the unsupported pair.
Ran(ret) == [manifolds |-> ret.manifolds, panic |-> ret.panic, warned |-> FALSE]
EarlyReturn(manifolds) == [manifolds |-> manifolds, panic |-> FALSE, warned |-> FALSE]
\* Warned without the diagnostic
Warned_silent(manifolds) == [manifolds |-> manifolds, panic |-> FALSE, warned |-> FALSE]
Warned(manifolds) == [manifolds |-> manifolds, panic |-> FALSE, warned |-> TRUE]

\* clear that leaves the list as it is
clear_nothing(contacts) == contacts
\* `contacts.clear()`
clear(contacts) == <<>>

\* The match over the two collider kinds.
contact_manifolds_match(self, other, iso1, iso2, pred_dist, manifolds, context) ==
    IF self.collider.kind = "Sphere" /\ other.collider.kind = "Sphere"
    THEN Ran(SphereSphere_get_collisions(ScaledSphere(self), iso1, ScaledSphere(other),
                                         iso2, AdderNormal(manifolds), pred_dist))
    ELSE IF self.collider.kind = "Sphere" /\ other.collider.kind = "Capsule"
    THEN Ran(SphereCapsule_get_collisions(ScaledSphere(self), iso1,
                                          ScaledCapsule(other), iso2,
                                          AdderNormal(manifolds), pred_dist))
    ELSE IF self.collider.kind = "Capsule" /\ other.collider.kind = "Capsule"
    THEN Ran(CapsuleCapsule_get_collisions(ScaledCapsule(self), iso1,
                                           ScaledCapsule(other), iso2,
                                           AdderNormal(manifolds), pred_dist))
    ELSE IF self.collider.kind = "Capsule" /\ other.collider.kind = "Sphere"
    THEN Ran(SphereCapsule_get_collisions(ScaledSphere(other), iso2,
                                          ScaledCapsule(self), iso1,
                                          AdderFlipped(manifolds), pred_dist))
    ELSE IF self.collider.kind = "Sphere" /\ other.collider.kind = "Arbitrary"
    THEN IF ~Resolves(context, other.collider.handle) THEN EarlyReturn(manifolds)
         ELSE Ran(SphereSdf_get_collisions(ScaledSphere(self), iso1,
                                           FieldOf(other.collider.handle),
                                           ScaledIso(iso2, other.scale),
                                           AdderNormal(manifolds), pred_dist))
    ELSE IF self.collider.kind = "Arbitrary" /\ other.collider.kind = "Sphere"
    THEN IF ~Resolves(context, self.collider.handle) THEN EarlyReturn(manifolds)
         ELSE Ran(SphereSdf_get_collisions(ScaledSphere(other), iso2,
                                           FieldOf(self.collider.handle),
                                           ScaledIso(iso1, self.scale),
                                           AdderFlipped(manifolds), pred_dist))
    ELSE IF self.collider.kind = "Capsule" /\ other.collider.kind = "Arbitrary"
    THEN IF ~Resolves(context, other.collider.handle) THEN EarlyReturn(manifolds)
         ELSE Ran(CapsuleSdf_get_collisions(ScaledCapsule(self), iso1,
                                            FieldOf(other.collider.handle),
                                            ScaledIso(iso2, other.scale),
                                            AdderNormal(manifolds), pred_dist))
    ELSE IF self.collider.kind = "Arbitrary" /\ other.collider.kind = "Capsule"
    THEN IF ~Resolves(context, self.collider.handle) THEN EarlyReturn(manifolds)
         ELSE Ran(CapsuleSdf_get_collisions(ScaledCapsule(other), iso2,
                                            FieldOf(self.collider.handle),
                                            ScaledIso(iso1, self.scale),
                                            AdderFlipped(manifolds), pred_dist))
    ELSE Warned(manifolds)

\* contact_manifolds_with_context without its `contacts.clear()`
contact_manifolds_with_context_appending(self, other, position1, rotation1, position2, rotation2, pred_dist, contacts, context) ==
    contact_manifolds_match(self, other, Iso(position1, rotation1),
                            Iso(position2, rotation2), pred_dist, contacts,
                            context)

\* AnyCollider::contact_manifolds_with_context
contact_manifolds_with_context(self, other, position1, rotation1, position2, rotation2, pred_dist, contacts, context) ==
    contact_manifolds_match(self, other, Iso(position1, rotation1),
                            Iso(position2, rotation2), pred_dist, clear(contacts),
                            context)

\* ---- QueryCollider::shape_intersection

\* `contacts.iter().any(|c| c.penetration >= 0.)`, unless the routine panicked
Answer(ret) ==
    [result |-> \E k \in 1..Len(ret.manifolds) :
                    FGe(ret.manifolds[k].penetration, Zero),
     panic |-> ret.panic]
\* `return false`
AnswerFalse == [result |-> FALSE, panic |-> FALSE]
\* `todo!()`
AnswerTodo == [result |-> FALSE, panic |-> TRUE]

\* ColliderShape::sphere, ColliderShape::capsule, ColliderShape::sdf
ColliderShape_sphere(radius) == Sphere(radius)
ColliderShape_capsule(radius, length) == Capsule3d(radius, length)
ColliderShape_sdf(handle) == Arbitrary(handle)

shape_intersection_match(self, shape, iso1, iso2, context) ==
    IF self.collider.kind = "Sphere"
    THEN IF shape.kind = "Sphere"
         THEN Answer(SphereSphere_get_collisions(self.collider, iso1, shape, iso2,
                                                 AdderNormal(<<>>), Zero))
         ELSE IF shape.kind = "Capsule"
         THEN Answer(SphereCapsule_get_collisions(self.collider, iso1, shape, iso2,
                                                  AdderNormal(<<>>), Zero))
         ELSE IF ~Resolves(context, shape.handle) THEN AnswerFalse
         ELSE Answer(SphereSdf_get_collisions(self.collider, iso1,
                                              FieldOf(shape.handle),
                                              ScaledIso(iso2, One),
                                              AdderNormal(<<>>), Zero))
    ELSE IF self.collider.kind = "Capsule"
    THEN IF shape.kind = "Sphere"
         THEN Answer(SphereCapsule_get_collisions(shape, iso2, self.collider, iso1,
                                                  AdderFlipped(<<>>), Zero))
         ELSE IF shape.kind = "Capsule"
         THEN Answer(CapsuleCapsule_get_collisions(self.collider, iso1, shape, iso2,
                                                   AdderNormal(<<>>), Zero))
         ELSE IF ~Resolves(context, shape.handle) THEN AnswerFalse
         ELSE Answer(CapsuleSdf_get_collisions(self.collider, iso1,
                                               FieldOf(shape.handle),
                                               ScaledIso(iso2, One),
                                               AdderNormal(<<>>), Zero))
    ELSE IF ~Resolves(context, self.collider.handle) THEN AnswerFalse
    ELSE IF shape.kind = "Sphere"
    THEN Answer(SphereSdf_get_collisions(shape, iso2, FieldOf(self.collider.handle),
                                         ScaledIso(iso1, One), AdderFlipped(<<>>),
                                         Zero))
    ELSE IF shape.kind = "Capsule"
    THEN Answer(CapsuleSdf_get_collisions(shape, iso2, FieldOf(self.collider.handle),
                                          ScaledIso(iso1, One), AdderFlipped(<<>>),
                                          Zero))
    ELSE IF ~Resolves(context, shape.handle) THEN AnswerFalse
    ELSE AnswerTodo

shape_intersection(self, shape, shape_rotation, local_origin, context) ==
    shape_intersection_match(self, shape, Iso(VZero, RotId),
                             Iso(local_origin, shape_rotation), context)

\* ----------------------------------------------------------------- rays

\* Option<f32>
Some(value) == [some |-> TRUE, value |-> value]
None == [some |-> FALSE, value |-> Zero]

\* f32::copysign, for a sign argument that is not a zero
CopySign(x, s) == IF s.n < 0 THEN FNeg(FAbs(x)) ELSE FAbs(x)

\* avian's Ray: origin, direction and the largest distance tmax
Ray(origin, direction, tmax) ==
    [origin |-> origin, direction |-> direction, tmax |-> tmax]
\* Ray3d::new
Ray3d(origin, direction) == [origin |-> origin, direction |-> direction]

\* ---- local_ray_distance_with_sphere

\* the origin is outside: the second root
local_ray_sphere_t2(b, d) == Some(FSub(FNeg(b), CopySign(FSqrt(FAbs(d)), d)))

local_ray_sphere_outside(c, b) ==
    IF FGt(b, Zero) THEN None ELSE local_ray_sphere_t2(b, FSub(FMul(b, b), c))

\* the hollow sphere answered with the second root instead of the first
local_ray_sphere_inside_second(c, b) ==
    Some(FSub(FNeg(b), FSqrt(FSub(FMul(b, b), c))))

\* the origin is inside the hollow sphere: the first root
local_ray_sphere_inside(c, b) == Some(FAdd(FNeg(b), FSqrt(FSub(FMul(b, b), c))))

local_ray_sphere_c(ray, solid, c) ==
    IF FGt(c, Zero) THEN local_ray_sphere_outside(c, Dot(ray.origin, ray.direction))
    ELSE IF solid THEN Some(Zero)
    ELSE local_ray_sphere_inside(c, Dot(ray.origin, ray.direction))

local_ray_distance_with_sphere(radius, ray, solid) ==
    local_ray_sphere_c(ray, solid,
                       FSub(LengthSquared(ray.origin), FMul(radius, radius)))

\* ---- local_ray_distance_with_capsule

local_ray_capsule_t(max_distance, t2, t1) ==
    IF FGt(t2, Zero) /\ FLe(t2, max_distance) THEN Some(t2)
    ELSE IF FGt(t1, max_distance) THEN None
    ELSE Some(t1)

local_ray_capsule_roots(max_distance, is_origin_inside, b, d_sqrt) ==
    local_ray_capsule_t(max_distance,
                        IF is_origin_inside THEN FAdd(FNeg(b), d_sqrt)
                        ELSE FSub(FNeg(b), d_sqrt),
                        FAdd(FNeg(b), d_sqrt))

local_ray_capsule_d2(max_distance, is_origin_inside, b, d) ==
    IF FLt(d, Zero) THEN None
    ELSE local_ray_capsule_roots(max_distance, is_origin_inside, b, FSqrt(d))

local_ray_capsule_bc(max_distance, is_origin_inside, b, c) ==
    IF FGt(c, Zero) /\ FGt(b, Zero) THEN None
    ELSE local_ray_capsule_d2(max_distance, is_origin_inside, b, FSub(FMul(b, b), c))

\* the hemisphere test, about the centre of the hemisphere that was hit
local_ray_capsule_hemisphere(ray, max_distance, radius_squared, is_origin_inside, offset_origin) ==
    local_ray_capsule_bc(max_distance, is_origin_inside,
                         Dot(offset_origin, ray.direction),
                         FSub(LengthSquared(offset_origin), radius_squared))

local_ray_capsule_y(cap, ray, max_distance, radius_squared, oa, baba, is_origin_inside, cylinder_distance, y) ==
    IF FGt(y, Zero) /\ FLt(y, baba) /\ FGt(cylinder_distance, Zero)
    THEN IF FGt(cylinder_distance, max_distance) THEN None
         ELSE Some(cylinder_distance)
    ELSE local_ray_capsule_hemisphere(ray, max_distance, radius_squared,
             is_origin_inside,
             IF FLe(y, Zero) THEN oa
             ELSE Vec(ray.origin[1], FSub(ray.origin[2], cap.half_length),
                      ray.origin[3]))

local_ray_capsule_cylinder(cap, ray, max_distance, radius_squared, oa, baba, bard, baoa, is_origin_inside, cylinder_distance) ==
    local_ray_capsule_y(cap, ray, max_distance, radius_squared, oa, baba,
                        is_origin_inside, cylinder_distance,
                        FAdd(baoa, FMul(cylinder_distance, bard)))

local_ray_capsule_inside(cap, ray, max_distance, solid, radius_squared, oa, baba, bard, baoa, a, b, d, is_origin_inside) ==
    IF solid /\ is_origin_inside THEN Some(Zero)
    ELSE local_ray_capsule_cylinder(cap, ray, max_distance, radius_squared, oa, baba,
             bard, baoa, is_origin_inside,
             IF is_origin_inside THEN FDiv(FAdd(FNeg(b), FSqrt(d)), a)
             ELSE FDiv(FSub(FNeg(b), FSqrt(d)), a))

\* is_inside_cylinder_horizontal, is_inside_cylinder_vertical and
\* intersects_hemisphere, combined into is_origin_inside
local_ray_capsule_origin_inside(cap, ray, radius_squared, c) ==
    \/ /\ FLt(c, Zero)
       /\ FLt(FAdd(FMul(ray.origin[1], ray.origin[1]),
                   FMul(FSub(cap.half_length, FAbs(ray.origin[2])),
                        FSub(cap.half_length, FAbs(ray.origin[2])))),
              radius_squared)
    \/ /\ FLt(c, Zero)
       /\ FLt(FAbs(ray.origin[2]), cap.half_length)

local_ray_capsule_d(cap, ray, max_distance, solid, radius_squared, oa, baba, bard, baoa, a, b, c, d) ==
    IF FGe(d, Zero)
    THEN local_ray_capsule_inside(cap, ray, max_distance, solid, radius_squared, oa,
             baba, bard, baoa, a, b, d,
             local_ray_capsule_origin_inside(cap, ray, radius_squared, c))
    ELSE None

local_ray_capsule_abc(cap, ray, max_distance, solid, radius_squared, oa, baba, bard, baoa, a, b, c) ==
    local_ray_capsule_d(cap, ray, max_distance, solid, radius_squared, oa, baba, bard,
                        baoa, a, b, c, FSub(FMul(b, b), FMul(a, c)))

local_ray_capsule_dots(cap, ray, max_distance, solid, radius_squared, oa, baba, bard, baoa, rdoa, oaoa) ==
    local_ray_capsule_abc(cap, ray, max_distance, solid, radius_squared, oa, baba,
        bard, baoa,
        FMax(FSub(baba, FMul(bard, bard)), EPSILON),
        FSub(FMul(baba, rdoa), FMul(baoa, bard)),
        FSub(FSub(FMul(baba, oaoa), FMul(baoa, baoa)), FMul(radius_squared, baba)))

local_ray_capsule_oa(cap, ray, max_distance, solid, radius_squared, ba, oa) ==
    local_ray_capsule_dots(cap, ray, max_distance, solid, radius_squared, oa,
        FMul(ba, ba), FMul(ba, ray.direction[2]), FMul(ba, oa[2]),
        Dot(ray.direction, oa), Dot(oa, oa))

local_ray_distance_with_capsule(cap, ray, max_distance, solid) ==
    local_ray_capsule_oa(cap, ray, max_distance, solid,
        FMul(cap.radius, cap.radius), FMul(Two, cap.half_length),
        Vec(ray.origin[1], FAdd(ray.origin[2], cap.half_length), ray.origin[3]))

\* ---- QueryCollider::ray_hit

\* the radius ray_hit marches with
RAY_PROBE == [n |-> 1, d |-> 1000]

\* `let MarchResult::Hit(toi, _) = res else { return f32::INFINITY }; *toi`
ray_hit_march(res) == IF res.tag = "Hit" THEN res.toi ELSE Inf
\* ray_hit_filter without the comparison with tmax
ray_hit_filter_unbounded(found, tmax) == IF found.some THEN found.value ELSE Inf

\* `.filter(|&distance| distance <= ray.tmax).unwrap_or(f32::INFINITY)`
ray_hit_filter(found, tmax) ==
    IF found.some /\ FLe(found.value, tmax) THEN found.value ELSE Inf
\* `.unwrap_or(f32::INFINITY)`
ray_hit_unwrap(found) == IF found.some THEN found.value ELSE Inf

ray_hit(self, ray, solid, context) ==
    IF self.collider.kind = "Arbitrary"
    THEN IF ~Resolves(context, self.collider.handle) THEN Inf
         ELSE ray_hit_march(march_edge(FieldOf(self.collider.handle), ray.origin,
                                       ray.direction, RAY_PROBE, ray.tmax))
    ELSE IF self.collider.kind = "Sphere"
    THEN ray_hit_filter(local_ray_distance_with_sphere(self.collider.radius,
                            Ray3d(ray.origin, ray.direction), solid),
                        ray.tmax)
    ELSE ray_hit_unwrap(local_ray_distance_with_capsule(self.collider,
                            Ray3d(ray.origin, ray.direction), ray.tmax, solid))

\* ---- QueryCollider::shape_cast

\* Option<QueryShapeCastHit>
CastHit(distance, point, normal) ==
    [some |-> TRUE, distance |-> distance, point |-> point, normal |-> normal]
CastNone == [some |-> FALSE, distance |-> Zero, point |-> VZero, normal |-> VZero]

\* Vec3::normalize_or: the fallback unless the reciprocal of the length is
\* finite and positive
normalize_or_rcp(v, fallback, rcp) ==
    IF IsFinite(rcp) /\ FGt(rcp, Zero) THEN VScale(v, rcp) ELSE fallback
normalize_or(v, fallback) == normalize_or_rcp(v, fallback, FDiv(One, Length(v)))

\* The gradient of a capsule's own distance field (Sdf::gradient for
\* Capsule3d): away from the nearest point of its axis.
CapsuleGradient(c, p) ==
    normalize_or(Vec(p[1], FSub(p[2], FClamp(p[2], FNeg(c.half_length), c.half_length)),
                     p[3]),
                 VY)

shape_cast_sdf(sdf, local_dir, range, start, res) ==
    IF res.tag = "Hit"
    THEN CastHit(FAdd(range[1], res.toi),
                 VSub(VAdd(start, VScale(local_dir, res.toi)),
                      VScale(SdfGradient(sdf, VAdd(start, VScale(local_dir, res.toi))),
                             res.dist)),
                 SdfGradient(sdf, VAdd(start, VScale(local_dir, res.toi))))
    ELSE CastNone

shape_cast_start(sdf, shape, local_dir, range, start) ==
    shape_cast_sdf(sdf, local_dir, range, start,
                   march_edge(sdf, start, local_dir, shape.radius,
                              FSub(range[2], range[1])))

shape_cast_sphere_hit(s, distance, normal) ==
    CastHit(distance, VScale(normal, s.radius), normal)

shape_cast_sphere(s, local_origin, local_dir, range, found) ==
    IF found.some /\ FLe(found.value, range[2])
    THEN shape_cast_sphere_hit(s, found.value,
             normalize_or(VAdd(local_origin, VScale(local_dir, found.value)), VY))
    ELSE CastNone

shape_cast_capsule_hit(c, distance, normal) ==
    CastHit(distance, VScale(normal, c.radius), normal)

shape_cast_capsule(c, local_origin, local_dir, found) ==
    IF found.some
    THEN shape_cast_capsule_hit(c, found.value,
             CapsuleGradient(c, VAdd(local_origin, VScale(local_dir, found.value))))
    ELSE CastNone

\* (the cast shape's rotation is ignored)
shape_cast(self, shape, rotation, local_origin, local_dir, range, context) ==
    IF self.collider.kind = "Arbitrary"
    THEN IF ~Resolves(context, self.collider.handle) THEN CastNone
         ELSE shape_cast_start(FieldOf(self.collider.handle), shape, local_dir, range,
                               VAdd(local_origin, VScale(local_dir, range[1])))
    ELSE IF self.collider.kind = "Sphere"
    THEN shape_cast_sphere(self.collider, local_origin, local_dir, range,
             local_ray_distance_with_sphere(FAdd(shape.radius, self.collider.radius),
                                            Ray3d(local_origin, local_dir), TRUE))
    ELSE shape_cast_capsule(self.collider, local_origin, local_dir,
             local_ray_distance_with_capsule(
                 [kind |-> "Capsule",
                  radius |-> FAdd(self.collider.radius, shape.radius),
                  half_length |-> self.collider.half_length, handle |-> "none"],
                 Ray3d(local_origin, local_dir), range[2], TRUE))

\* ---- change notification

\* invalidate_changed_handle_colliders without the comparison of identifiers
invalidate_every_handle_collider(id, query) ==
    {i \in DOMAIN query : query[i].collider.kind = "Arbitrary"}

\* invalidate_changed_handle_colliders: the colliders it marks as changed
invalidate_changed_handle_colliders(id, query) ==
    {i \in DOMAIN query : /\ query[i].collider.kind = "Arbitrary"
                          /\ query[i].collider.handle = id}

\* ------------------------------------------------------- state machine

VARIABLES
    colliders,  \* the SdfCollider component of each entity
    sdfs,       \* the handles whose asset is processed: what the context resolves
    contacts,   \* the narrow phase's output list
    changed,    \* the entities whose collider is marked as changed
    panicked,   \* a call has panicked
    call        \* the most recent call: its arguments and what it returned

vars == <<colliders, sdfs, contacts, changed, panicked, call>>

\* literals: the value n/d, and the point (x/2, y/2, z/2)
F(n, d) == Q(n, d)
P(x, y, z) == Vec(Q(x, 2), Q(y, 2), Q(z, 2))

NoCall == [op |-> "none"]

\* The entities of the world: a sphere, a capsule and two implicit surfaces,
\* each as its constructor leaves it.
World ==
    <<SdfCollider_sphere(One), SdfCollider_capsule(Half, Two),
      SdfCollider_sdf("h1"), SdfCollider_sdf("h2")>>
Ids == DOMAIN World

Init ==
    /\ colliders = World
    /\ sdfs = {}
    /\ contacts = <<>>
    /\ changed = {}
    /\ panicked = FALSE
    /\ call = NoCall

\* The asset behind handle h is processed: the context resolves it from now
\* on, and the SdfProcessed trigger runs the observer.
SdfProcessed(h) ==
    /\ ~panicked
    /\ sdfs' = sdfs \cup {h}
    /\ changed' = changed \cup invalidate_changed_handle_colliders(h, colliders)
    /\ call' = NoCall
    /\ UNCHANGED <<colliders, contacts, panicked>>

SetScale(i, scale) ==
    /\ ~panicked
    /\ colliders' = [colliders EXCEPT ![i] = set_scale(@, scale)]
    /\ call' = NoCall
    /\ UNCHANGED <<sdfs, contacts, changed, panicked>>

\* The narrow phase ran the pair (i, j) into the output list, and `out` is
\* what the call left behind.
ManifoldsDone(i, j, position1, rotation1, position2, rotation2, pred_dist, out) ==
    /\ contacts' = out.manifolds
    /\ panicked' = out.panic
    /\ call' = [op |-> "contact_manifolds", self |-> i, other |-> j,
                position1 |-> position1, rotation1 |-> rotation1,
                position2 |-> position2, rotation2 |-> rotation2,
                pred_dist |-> pred_dist, context |-> sdfs, had |-> Len(contacts),
                warned |-> out.warned]
    /\ UNCHANGED <<colliders, sdfs, changed>>

ContactManifolds(i, j, position1, rotation1, position2, rotation2, pred_dist) ==
    /\ ~panicked
    /\ i # j
    /\ ManifoldsDone(i, j, position1, rotation1, position2, rotation2, pred_dist,
           contact_manifolds_with_context(colliders[i], colliders[j], position1,
               rotation1, position2, rotation2, pred_dist, contacts, sdfs))

IntersectionDone(i, shape, shape_rotation, local_origin, out) ==
    /\ panicked' = out.panic
    /\ call' = [op |-> "shape_intersection", self |-> i, shape |-> shape,
                shape_rotation |-> shape_rotation, local_origin |-> local_origin,
                context |-> sdfs, result |-> out.result]
    /\ UNCHANGED <<colliders, sdfs, contacts, changed>>

ShapeIntersection(i, shape, shape_rotation, local_origin) ==
    /\ ~panicked
    /\ IntersectionDone(i, shape, shape_rotation, local_origin,
           shape_intersection(colliders[i], shape, shape_rotation, local_origin, sdfs))

RayHit(i, ray, solid) ==
    /\ ~panicked
    /\ call' = [op |-> "ray_hit", self |-> i, ray |-> ray, solid |-> solid,
                context |-> sdfs, result |-> ray_hit(colliders[i], ray, solid, sdfs)]
    /\ UNCHANGED <<colliders, sdfs, contacts, changed, panicked>>

ShapeCast(i, shape, local_origin, local_dir, range) ==
    /\ ~panicked
    /\ call' = [op |-> "shape_cast", self |-> i, shape |-> shape,
                local_origin |-> local_origin, local_dir |-> local_dir,
                range |-> range, context |-> sdfs,
                result |-> shape_cast(colliders[i], shape, RotId, local_origin,
                                      local_dir, range, sdfs)]
    /\ UNCHANGED <<colliders, sdfs, contacts, changed, panicked>>

\* the inputs of the calls
Scalable == {2, 3}
ScaleVectors ==
    {Vec(One, One, One), Vec(Two, F(3, 1), Two), Vec(F(-1, 1), One, One)}
Pairs == {<<1, 2>>, <<2, 1>>, <<1, 3>>, <<3, 2>>, <<3, 4>>}
Above == P(0, 2, 0)
QueryShapes ==
    {ColliderShape_sphere(One), ColliderShape_capsule(Half, Two),
     ColliderShape_sdf("h1")}
Down == Vec(Zero, F(-1, 1), Zero)
Rays == {Ray(P(0, 6, 0), Down, F(4, 1))}
Ranges == {<<Zero, F(4, 1)>>}

Next ==
    \/ \E h \in Handles : SdfProcessed(h)
    \/ \E i \in Scalable, scale \in ScaleVectors : SetScale(i, scale)
    \/ \E pair \in Pairs :
           ContactManifolds(pair[1], pair[2], VZero, RotId, Above, RotId, Zero)
    \/ \E i \in Ids, shape \in QueryShapes :
           ShapeIntersection(i, shape, RotId, Above)
    \/ \E i \in Ids, ray \in Rays : RayHit(i, ray, TRUE)
    \/ \E i \in Ids, range \in Ranges :
           ShapeCast(i, Sphere(Half), P(0, 6, 0), Down, range)

Spec == Init /\ [][Next]_vars

\* ------------------------------------------------- one pair, one call
\* The pair routines and the overlap test as functions of their arguments:
\* two colliders as constructors and set_scale leave them, every field
\* processed, and one call with a placement drawn from the sets below.

Doubled == Vec(Two, F(3, 1), Two)

PairPopulations ==
    { <<SdfCollider_sphere(One), SdfCollider_sphere(One)>>,
      <<set_scale(SdfCollider_sphere(One), Doubled), SdfCollider_sphere(One)>>,
      <<SdfCollider_sphere(One), SdfCollider_capsule(Half, Two)>>,
      <<SdfCollider_capsule(Half, Two), SdfCollider_sphere(One)>>,
      <<SdfCollider_capsule(Half, Two), SdfCollider_capsule(Half, Two)>>,
      <<SdfCollider_sphere(One), SdfCollider_sdf("h1")>>,
      <<SdfCollider_sdf("h1"), SdfCollider_sphere(One)>>,
      <<SdfCollider_sphere(One), SdfCollider_sdf("h2")>>,
      <<SdfCollider_sphere(One), set_scale(SdfCollider_sdf("h2"), Doubled)>>,
      <<SdfCollider_capsule(Half, Two), SdfCollider_sdf("h1")>>,
      <<SdfCollider_sdf("h1"), SdfCollider_capsule(Half, Two)>>,
      <<SdfCollider_capsule(Half, Two), set_scale(SdfCollider_sdf("h1"), Doubled)>>,
      <<SdfCollider_sdf("h1"), SdfCollider_sdf("h2")>> }

PairPositions ==
    { P(0, 0, 0), P(3, 0, 0), P(4, 0, 0), P(5, 0, 0), P(3, 4, 0), P(2, 1, 0),
      P(0, 0, 1), P(0, -1, 0), P(0, -2, 0), P(0, -3, 0), P(0, -6, 0),
      Vec(Zero, F(-7, 4), Zero), Vec(Zero, F(3, 4), Zero) }
PairRotations1 == {RotId, RotX180}
PairRotations2 == {RotId, RotZ90}
Margins == {Zero, Half}

InitPair ==
    /\ colliders \in PairPopulations
    /\ sdfs = Handles
    /\ contacts = <<>>
    /\ changed = {}
    /\ panicked = FALSE
    /\ call = NoCall

PairManifolds ==
    \E rotation1 \in PairRotations1, position2 \in PairPositions,
       rotation2 \in PairRotations2, pred_dist \in Margins :
        /\ call = NoCall
        /\ ContactManifolds(1, 2, VZero, rotation1, position2, rotation2, pred_dist)

\* the second collider's shape as the query shape
PairIntersection ==
    \E local_origin \in PairPositions, shape_rotation \in PairRotations2 :
        /\ call = NoCall
        /\ ShapeIntersection(1, colliders[2].collider, shape_rotation, local_origin)

NextPair == PairManifolds \/ PairIntersection

SpecPair == InitPair /\ [][NextPair]_vars

\* ------------------------------------------------ one function, one call
\* The ray routines as functions of their arguments: the colliders as their
\* constructors leave them, every field processed, and one call with
\* arguments drawn from the sets below.

FnOrigins ==
    { P(0, 6, 0), P(0, 2, 0), P(0, 1, 0), P(3, 4, 0), P(6, 0, 0), P(0, 0, 0),
      P(3, 0, 0) }
\* unit directions
FnDirections ==
    { Down, VY, Vec(One, Zero, Zero), Vec(F(-1, 1), Zero, Zero),
      Vec(F(-3, 5), F(-4, 5), Zero) }
FnRadii == {One, Two}
FnTmax == {One, F(4, 1)}

InitFn ==
    /\ colliders = World
    /\ sdfs = Handles
    /\ contacts = <<>>
    /\ changed = {}
    /\ panicked = FALSE
    /\ call = NoCall

RaySphere ==
    \E radius \in FnRadii, origin \in FnOrigins, direction \in FnDirections,
       solid \in BOOLEAN :
        /\ call = NoCall
        /\ call' = [op |-> "local_ray_distance_with_sphere", radius |-> radius,
                    ray |-> Ray3d(origin, direction), solid |-> solid,
                    result |-> local_ray_distance_with_sphere(radius,
                                   Ray3d(origin, direction), solid)]
        /\ UNCHANGED <<colliders, sdfs, contacts, changed, panicked>>

\* the ray passes through the centre of the ball that is field h2
ThroughCentre(origin, direction) ==
    origin = VScale(direction, Dot(origin, direction))

FnRayHit ==
    \E i \in Ids, origin \in FnOrigins, direction \in FnDirections,
       tmax \in FnTmax, solid \in BOOLEAN :
        /\ call = NoCall
        /\ colliders[i].collider.handle = "h2" => ThroughCentre(origin, direction)
        /\ RayHit(i, Ray(origin, direction, tmax), solid)

SegmentOrigins == {P(0, 0, 0), P(0, 2, 0), P(3, 0, 0), P(0, -6, 1)}
SegmentEnds == {VZero, P(0, 4, 0), P(4, 0, 0), P(0, 0, 2), P(2, 2, 0)}
Segments == SegmentOrigins \X SegmentEnds

ClosestPoints ==
    \E seg1 \in Segments, seg2 \in Segments :
        /\ call = NoCall
        /\ call' = [op |-> "closest_points_on_segments", seg1 |-> seg1,
                    seg2 |-> seg2,
                    result |-> closest_points_on_segments(seg1, seg2)]
        /\ UNCHANGED <<colliders, sdfs, contacts, changed, panicked>>

\* origins off the plane z = 0: beside a cap of the capsule, inside its
\* cylinder and inside its upper cap
CapsuleOrigins ==
    { Vec(Zero, F(7, 5), F(2, 5)), Vec(Zero, Half, F(1, 4)),
      Vec(Zero, F(5, 4), F(1, 4)), Vec(F(2, 5), F(7, 5), Zero) }
FnCapsules == {Capsule3d(Half, Two), Capsule3d(One, Two)}

RayCapsule ==
    \E cap \in FnCapsules, origin \in FnOrigins \cup CapsuleOrigins,
       direction \in FnDirections, max_distance \in FnTmax, solid \in BOOLEAN :
        /\ call = NoCall
        /\ call' = [op |-> "local_ray_distance_with_capsule", cap |-> cap,
                    ray |-> Ray3d(origin, direction),
                    max_distance |-> max_distance, solid |-> solid,
                    result |-> local_ray_distance_with_capsule(cap,
                                   Ray3d(origin, direction), max_distance, solid)]
        /\ UNCHANGED <<colliders, sdfs, contacts, changed, panicked>>

\* ranges (t0, t1) with 0 <= t0 <= t1
FnRanges == {<<Zero, F(4, 1)>>, <<F(3, 1), F(4, 1)>>, <<Half, Two>>, <<One, One>>}
FnCastRadii == {Half, One}

FnShapeCast ==
    \E i \in Ids, radius \in FnCastRadii, origin \in FnOrigins,
       direction \in FnDirections, range \in FnRanges :
        /\ call = NoCall
        /\ colliders[i].collider.handle = "h2" => ThroughCentre(origin, direction)
        /\ ShapeCast(i, Sphere(radius), origin, direction, range)

NextFn == RaySphere \/ FnRayHit \/ ClosestPoints \/ RayCapsule \/ FnShapeCast

SpecFn == InitFn /\ [][NextFn]_vars

\* ------------------------------------------------- march_edge, stepwise
\* march_edge as the loop it is: MarchBegin is the call up to the loop,
\* MarchIterate one test of the loop condition and, where it holds, one
\* run of the body.  The call records each sample: the travel at which the
\* field was read and the distance read there.

\* The iterations run for one call.
MaxSamples == 12

Running == [tag |-> "Running", toi |-> Zero, dist |-> Zero]

MarchFields == {"floor", "ball"}
MarchStarts == {P(0, 2, 0), P(0, 6, 0), Vec(Zero, F(1001, 2000), Zero)}
MarchDirections == {Down, VY, Vec(One, Zero, Zero)}
MarchRadii == {Zero, Half, F(-2, 1)}
MarchLengths == {Zero, F(-1, 1), F(7, 2000), Two, F(8, 1)}

\* a march from far away that reaches the surface at a shallow angle
FarStart == Vec(Zero, F(32768, 1), Zero)
Grazing == Vec(Zero, F(-16777215, 16777216), Zero)
FarMarch == <<"floor", FarStart, Grazing, F(1, 2048), F(40000, 1)>>

MarchInputs ==
    {in \in MarchFields \X MarchStarts \X MarchDirections \X MarchRadii
            \X MarchLengths :
        in[1] = "ball" => ThroughCentre(in[2], in[3])}
    \cup {FarMarch}

MarchBegin ==
    \E in \in MarchInputs :
        /\ call = NoCall
        /\ call' = [op |-> "march_edge", sdf |-> in[1], local_start |-> in[2],
                    local_direction |-> in[3], radius |-> in[4], length |-> in[5],
                    traveled |-> Zero, closest |-> <<Zero, Inf>>, samples |-> <<>>,
                    result |-> Running]
        /\ UNCHANGED <<colliders, sdfs, contacts, changed, panicked>>

\* the body of the loop, with the sampled distance in hand
MarchSampled(distance) ==
    call' = [call EXCEPT
        !.samples = Append(@, <<call.traveled, distance>>),
        !.result = IF FLe(distance, call.radius) THEN Hit(call.traveled, distance)
                   ELSE @,
        !.closest = IF FLe(distance, call.radius) THEN @
                    ELSE march_closest(call.traveled, @, distance),
        !.traveled = IF FLe(distance, call.radius) THEN @
                     ELSE march_advance(call.radius, @, distance)]

MarchIterate ==
    /\ call.op = "march_edge"
    /\ call.result = Running
    /\ Len(call.samples) < MaxSamples
    /\ IF FLt(call.traveled, call.length)
       THEN MarchSampled(SdfDistance(call.sdf,
                VAdd(call.local_start, VScale(call.local_direction, call.traveled))))
       ELSE call' = [call EXCEPT !.result = Closest(call.closest[1], call.closest[2])]
    /\ UNCHANGED <<colliders, sdfs, contacts, changed, panicked>>

NextMarch == MarchBegin \/ MarchIterate

SpecMarch == InitFn /\ [][NextMarch]_vars

\* ------------------------------------------------------------ properties

\* what the most recent call was about
ManifoldsCall == call.op = "contact_manifolds"
KindOfSelf == colliders[call.self].collider.kind
KindOfOther == colliders[call.other].collider.kind
SpheresCall == ManifoldsCall /\ KindOfSelf = "Sphere" /\ KindOfOther = "Sphere"

\* the radius a collider collides with: its stored radius times its scale
WorldRadius(col) == FMul(col.collider.radius, col.scale)

\* The tolerance within which a normal is a unit vector: square roots are
\* taken to one part in SqrtGrid.
UnitTolerance == Q(1, 16)
IsUnit(v) == FLe(FAbs(FSub(LengthSquared(v), One)), UnitTolerance)

SphereSphereRule(r1, r2, a, b, offset, pred_dist) ==
    IF FGt(FSub(FSub(offset, r1), r2), pred_dist)
    THEN contacts = <<>>
    ELSE /\ Len(contacts) = 1
         /\ contacts[1].penetration = FSub(FAdd(r1, r2), offset)
         /\ ~FEq(offset, Zero) =>
                /\ IsUnit(contacts[1].normal)
                /\ VScale(contacts[1].normal, offset) = VSub(b, a)
                /\ contacts[1].point =
                       VAdd(a, VScale(contacts[1].normal,
                                      FAdd(r1, FMul(FSub(FSub(offset, r1), r2), Half))))

UnitSpheresExample ==
    /\ WorldRadius(colliders[call.self]) = One
    /\ WorldRadius(colliders[call.other]) = One
    /\ call.position1 = VZero
    /\ call.position2 = P(3, 0, 0)
    /\ call.pred_dist = Zero

\* C1: sphere/sphere contact generation emits no contact when
\* dist = offset - r1 - r2 exceeds pred_dist and exactly one otherwise, with
\* penetration r1 + r2 - offset and, where the centres differ, the unit normal
\* from A's centre to B's and the point A + normal * (r1 + dist/2); unit
\* spheres at (0,0,0) and (1.5,0,0) with margin 0 give one contact with
\* normal (1,0,0) and penetration 0.5.
C1_SphereSphere ==
    SpheresCall =>
        /\ ~panicked
        /\ SphereSphereRule(WorldRadius(colliders[call.self]),
                            WorldRadius(colliders[call.other]),
                            call.position1, call.position2,
                            Distance(call.position1, call.position2), call.pred_dist)
        /\ UnitSpheresExample =>
               /\ Len(contacts) = 1
               /\ contacts[1].normal = Vec(One, Zero, Zero)
               /\ contacts[1].penetration = Half

C1_Witness ==
    /\ SpheresCall
    /\ UnitSpheresExample
    /\ Len(contacts) = 1
    /\ contacts[1].point = Vec(F(3, 4), Zero, Zero)

\* C3: two spheres with identical centres give a contact whose normal is
\* (0,1,0) and whose point, anchors, normal and penetration hold no NaN.
C3_CoincidentSpheres ==
    (SpheresCall /\ call.position1 = call.position2) =>
        /\ Len(contacts) = 1
        /\ contacts[1].normal = VY
        /\ ~VHasNaN(contacts[1].point)
        /\ ~VHasNaN(contacts[1].anchor1)
        /\ ~VHasNaN(contacts[1].anchor2)
        /\ ~IsNaN(contacts[1].penetration)

\* ---- the separation of two placed shapes, from their geometry

\* the least of a finite non-empty set of finite values
Least(S) == CHOOSE x \in S : \A y \in S : FLe(x, y)

Fractions == {Zero, Q(1, 4), Half, Q(3, 4), One}

\* the axis of a placed capsule: its lower end and the vector to its upper end
AxisOf(col, position, rotation) ==
    <<VSub(position, VScale(Rotate(rotation, VY),
                            FMul(col.collider.half_length, col.scale))),
      VScale(Rotate(rotation, VY),
             FMul(Two, FMul(col.collider.half_length, col.scale)))>>

\* the squared distance from the point p to the segment seg
PointSegmentSquared(p, seg) ==
    LengthSquared(VSub(p, VAdd(seg[1],
        VScale(seg[2], FClamp(FDiv(Dot(VSub(p, seg[1]), seg[2]),
                                   LengthSquared(seg[2])), Zero, One)))))

\* the squared distance between two segments: the least over the ends of
\* each against the other and over the pairs of points at the Fractions
SegmentsSquared(seg1, seg2) ==
    Least({PointSegmentSquared(seg1[1], seg2),
           PointSegmentSquared(VAdd(seg1[1], seg1[2]), seg2),
           PointSegmentSquared(seg2[1], seg1),
           PointSegmentSquared(VAdd(seg2[1], seg2[2]), seg1)}
          \cup {LengthSquared(VSub(VAdd(seg1[1], VScale(seg1[2], x)),
                                   VAdd(seg2[1], VScale(seg2[2], y)))) :
                    x \in Fractions, y \in Fractions})

\* two round shapes whose cores are d (squared: d2) apart are within the
\* margin when d - r1 - r2 <= pred_dist
RoundWithin(d2, r1, r2, pred_dist) ==
    FLe(d2, FMul(FAdd(FAdd(r1, r2), pred_dist), FAdd(FAdd(r1, r2), pred_dist)))

\* the world distance from the point p to the placed, scaled surface
SurfaceDistance(surface, position, rotation, p) ==
    FMul(SdfDistance(FieldOf(surface.collider.handle),
                     VDivS(Rotate(Inverse(rotation), VSub(p, position)),
                           surface.scale)),
         surface.scale)

\* the least world distance from the points of a capsule's axis to the surface
AxisSurfaceDistance(surface, position, rotation, seg) ==
    Least({SurfaceDistance(surface, position, rotation,
                           VAdd(seg[1], VScale(seg[2], x))) : x \in Fractions})

\* The separation of A and B is at most pred_dist.
Within(A, B, positionA, rotationA, positionB, rotationB, pred_dist) ==
    IF A.collider.kind = "Sphere" /\ B.collider.kind = "Sphere"
    THEN RoundWithin(LengthSquared(VSub(positionA, positionB)),
                     WorldRadius(A), WorldRadius(B), pred_dist)
    ELSE IF A.collider.kind = "Sphere" /\ B.collider.kind = "Capsule"
    THEN RoundWithin(PointSegmentSquared(positionA, AxisOf(B, positionB, rotationB)),
                     WorldRadius(A), WorldRadius(B), pred_dist)
    ELSE IF A.collider.kind = "Capsule" /\ B.collider.kind = "Capsule"
    THEN RoundWithin(SegmentsSquared(AxisOf(A, positionA, rotationA),
                                     AxisOf(B, positionB, rotationB)),
                     WorldRadius(A), WorldRadius(B), pred_dist)
    ELSE IF A.collider.kind = "Sphere" /\ B.collider.kind = "Arbitrary"
    THEN FLe(FSub(SurfaceDistance(B, positionB, rotationB, positionA), WorldRadius(A)),
             pred_dist)
    ELSE IF A.collider.kind = "Capsule" /\ B.collider.kind = "Arbitrary"
    THEN FLe(FSub(AxisSurfaceDistance(B, positionB, rotationB,
                                      AxisOf(A, positionA, rotationA)),
                  WorldRadius(A)),
             pred_dist)
    ELSE FALSE

\* the same, whichever way round the pair was passed
WithinMargin(A, B, positionA, rotationA, positionB, rotationB, pred_dist) ==
    IF \/ A.collider.kind = "Arbitrary"
       \/ A.collider.kind = "Capsule" /\ B.collider.kind = "Sphere"
    THEN Within(B, A, positionB, rotationB, positionA, rotationA, pred_dist)
    ELSE Within(A, B, positionA, rotationA, positionB, rotationB, pred_dist)

SupportedCall == ManifoldsCall /\ ~(KindOfSelf = "Arbitrary" /\ KindOfOther = "Arbitrary")

CallWithinMargin ==
    WithinMargin(colliders[call.self], colliders[call.other], call.position1,
                 call.rotation1, call.position2, call.rotation2, call.pred_dist)

\* C2: for each of the five supported pairs, a separation of at most
\* pred_dist (equality included) gives at least one contact, and a larger
\* separation gives none.
C2_MarginDecides ==
    SupportedCall =>
        /\ ~panicked
        /\ CallWithinMargin => Len(contacts) >= 1
        /\ ~CallWithinMargin => contacts = <<>>

\* ---- symmetry and anchors

\* a contact as the other shape sees it: anchors swapped, normal negated
Mirrored(c) ==
    Contact(c.point, c.anchor2, c.anchor1, VNeg(c.normal), c.penetration)

MirroredAll(manifolds) == [k \in 1..Len(manifolds) |-> Mirrored(manifolds[k])]

\* the same call with the two colliders and their placements exchanged
ExchangedCall ==
    contact_manifolds_with_context(colliders[call.other], colliders[call.self],
        call.position2, call.rotation2, call.position1, call.rotation1,
        call.pred_dist, <<>>, call.context)

\* C4: evaluating (B, A) with (Pb, Pa) gives the contacts of (A, B) with
\* (Pa, Pb) with anchors swapped and normal negated, for every pair.
C4_Symmetry ==
    SupportedCall => contacts = MirroredAll(ExchangedCall.manifolds)

\* C5: every contact's anchor_a is its point relative to the origin of the
\* first shape's placement and its anchor_b its point relative to the origin
\* of the second's.
C5_Anchors ==
    ManifoldsCall =>
        \A k \in 1..Len(contacts) :
            /\ contacts[k].anchor1 = VSub(contacts[k].point, call.position1)
            /\ contacts[k].anchor2 = VSub(contacts[k].point, call.position2)

\* ---- margin monotonicity

\* the same call with the margin m
CallWithMargin(m) ==
    contact_manifolds_with_context(colliders[call.self], colliders[call.other],
        call.position1, call.rotation1, call.position2, call.rotation2, m, <<>>,
        call.context)

Elements(manifolds) == {manifolds[k] : k \in 1..Len(manifolds)}

\* C6: a contact produced with margin m1 is produced, with the same point,
\* normal and penetration, with every margin m2 >= m1.
C6_MarginMonotone ==
    ManifoldsCall =>
        \A m \in Margins :
            FGe(m, call.pred_dist) =>
                Elements(contacts) \subseteq Elements(CallWithMargin(m).manifolds)

C6_Witness ==
    /\ ManifoldsCall
    /\ call.pred_dist = Zero
    /\ Len(contacts) = 2
    /\ Len(CallWithMargin(Half).manifolds) = 2

\* ---- the overlap test against contact generation

\* contact generation for the overlap test's pair and placements, margin 0
ContactsOfQuery ==
    contact_manifolds_with_context(colliders[call.self],
        [collider |-> call.shape, scale |-> One], VZero, RotId, call.local_origin,
        call.shape_rotation, Zero, <<>>, call.context)

\* C7: shape_intersection answers true exactly when contact generation for
\* the same pair and placements with margin 0 yields a contact with
\* penetration >= 0, whatever the collider's kind and stored scale.
C7_OverlapConsistent ==
    call.op = "shape_intersection" =>
        /\ ~panicked
        /\ call.result = Answer(ContactsOfQuery).result

\* ---- error policy

\* a shape that references field data the call's context does not resolve
Unresolved(shape) == shape.kind = "Arbitrary" /\ ~Resolves(call.context, shape.handle)

\* C8: when the lookup of an implicit surface involved in a call fails,
\* contact_manifolds_with_context leaves the output list empty whatever it
\* held, ray_hit answers infinity, shape_cast answers None and
\* shape_intersection answers false, and none of them panics.
C8_UnresolvedReference ==
    /\ ( /\ ManifoldsCall
         /\ Unresolved(colliders[call.self].collider)
                \/ Unresolved(colliders[call.other].collider) )
           => contacts = <<>> /\ ~panicked
    /\ (call.op = "ray_hit" /\ Unresolved(colliders[call.self].collider))
           => call.result = Inf /\ ~panicked
    /\ (call.op = "shape_cast" /\ Unresolved(colliders[call.self].collider))
           => call.result = CastNone /\ ~panicked
    /\ ( /\ call.op = "shape_intersection"
         /\ Unresolved(colliders[call.self].collider) \/ Unresolved(call.shape) )
           => call.result = FALSE /\ ~panicked

C8_Witness ==
    /\ ManifoldsCall
    /\ KindOfSelf = "Sphere"
    /\ Unresolved(colliders[call.other].collider)
    /\ call.had > 0
    /\ contacts = <<>>

\* C9: when both colliders are implicit surfaces the call reports a
\* diagnostic, returns normally and leaves the output list empty, whatever
\* the list held and whether or not the references resolve.
C9_UnsupportedPair ==
    (ManifoldsCall /\ KindOfSelf = "Arbitrary" /\ KindOfOther = "Arbitrary")
        => call.warned /\ ~panicked /\ contacts = <<>>

C9_Witness ==
    /\ ManifoldsCall
    /\ KindOfSelf = "Arbitrary"
    /\ KindOfOther = "Arbitrary"
    /\ call.context = Handles
    /\ call.had > 0
    /\ call.warned
    /\ contacts = <<>>

\* C10: shape_intersection answers true or false without panicking for each
\* of the nine combinations of collider kind and query shape kind, implicit
\* surface against implicit surface with both references resolved included.
C10_OverlapTotal ==
    call.op = "shape_intersection" => ~panicked /\ call.result \in BOOLEAN

\* ---- the output list

\* the contacts the most recent call generates, on a list of its own
GeneratedByCall ==
    contact_manifolds_match(colliders[call.self], colliders[call.other],
        Iso(call.position1, call.rotation1), Iso(call.position2, call.rotation2),
        call.pred_dist, <<>>, call.context).manifolds

CapsuleSurfaceCall ==
    \/ KindOfSelf = "Capsule" /\ KindOfOther = "Arbitrary"
    \/ KindOfSelf = "Arbitrary" /\ KindOfOther = "Capsule"

\* C11: after any sequence of contact_manifolds_with_context calls on the
\* same output list, the list holds exactly the contacts the most recent call
\* generated, between 0 and 2 of them, and at most 1 for every pair other
\* than capsule/implicit surface.
C11_OutputList ==
    (ManifoldsCall /\ ~panicked) =>
        /\ contacts = GeneratedByCall
        /\ Len(contacts) <= 2
        /\ ~CapsuleSurfaceCall => Len(contacts) <= 1

C11_Witness ==
    /\ ManifoldsCall
    /\ CapsuleSurfaceCall
    /\ call.had > 0
    /\ Len(contacts) = 2

\* ---- the stored scale

\* a step that is a query: anything but set_scale and the change notification
QueryStep == call'.op # "none"

\* C12: whatever scale vectors set_scale is given and whatever queries run,
\* each collider's stored scale is a non-negative scalar, and no query
\* changes a stored scale or stored shape dimensions.
C12_StoredScale ==
    /\ [](\A i \in Ids : FGe(colliders[i].scale, Zero))
    /\ [][QueryStep => colliders' = colliders]_vars

\* ---- change notification

\* the colliders that reference the field data `id`
Referencing(id) ==
    {i \in Ids : /\ colliders[i].collider.kind = "Arbitrary"
                 /\ colliders[i].collider.handle = id}

\* the step delivers SdfProcessed(id) for data not processed before
Delivered(id) == id \notin sdfs /\ sdfs' = sdfs \cup {id}

\* C13: delivering SdfProcessed(id) marks as changed exactly the colliders
\* of kind Arbitrary whose handle identifier is id; spheres, capsules and
\* implicit surfaces referencing other data are never marked, and no
\* collider's shape or scale is modified.
C13_ChangeNotification ==
    /\ [](\A i \in changed : /\ colliders[i].collider.kind = "Arbitrary"
                              /\ colliders[i].collider.handle \in sdfs)
    /\ [][\A id \in Handles :
              Delivered(id) => /\ changed' = changed \cup Referencing(id)
                               /\ colliders' = colliders]_vars

C13_Witness == sdfs = {"h1"} /\ changed = {3}

\* ---- rays

RaySphereCall == call.op = "local_ray_distance_with_sphere"

\* the origin of the call's ray is outside the sphere
OriginOutside ==
    FGt(LengthSquared(call.ray.origin), FMul(call.radius, call.radius))

\* the ray is aimed directly at the centre
AimedAtCentre ==
    call.ray.origin = VScale(call.ray.direction, FNeg(Length(call.ray.origin)))

\* p lies on the sphere of radius r, to the precision of the square root
OnSphere(p, r) ==
    FLe(FAbs(FSub(LengthSquared(p), FMul(r, r))), FMul(UnitTolerance, FMul(r, r)))

\* C14: local_ray_distance_with_sphere with a unit direction: from outside,
\* a ray aimed at the centre gives |origin| - radius and a ray pointing away
\* (origin . direction > 0) gives no hit; from inside or on the sphere,
\* solid mode gives 0 and hollow mode a distance >= 0 whose hit point lies
\* on the sphere.
C14_RaySphere ==
    RaySphereCall =>
        /\ (OriginOutside /\ AimedAtCentre) =>
               call.result = Some(FSub(Length(call.ray.origin), call.radius))
        /\ (OriginOutside /\ FGt(Dot(call.ray.origin, call.ray.direction), Zero)) =>
               call.result = None
        /\ (~OriginOutside /\ call.solid) => call.result = Some(Zero)
        /\ (~OriginOutside /\ ~call.solid) =>
               /\ call.result.some
               /\ FGe(call.result.value, Zero)
               /\ OnSphere(VAdd(call.ray.origin,
                                VScale(call.ray.direction, call.result.value)),
                           call.radius)

C14_Witness ==
    /\ RaySphereCall
    /\ ~call.solid
    /\ call.radius = One
    /\ call.ray = Ray3d(P(0, 1, 0), VY)
    /\ call.result = Some(Half)
RayHitCall == call.op = "ray_hit"

\* the march ray_hit runs for a resolved implicit surface
MarchOfRay ==
    march_edge(FieldOf(colliders[call.self].collider.handle), call.ray.origin,
               call.ray.direction, RAY_PROBE, call.ray.tmax)

\* C15: for every collider kind and every ray with tmax >= 0, ray_hit
\* answers infinity or a distance t with 0 <= t <= tmax; for an implicit
\* surface a march ending in Closest gives infinity.
C15_RayHitBounded ==
    (RayHitCall /\ FGe(call.ray.tmax, Zero)) =>
        /\ \/ call.result = Inf
           \/ FLe(Zero, call.result) /\ FLe(call.result, call.ray.tmax)
        /\ ( /\ KindOfSelf = "Arbitrary"
             /\ Resolves(call.context, colliders[call.self].collider.handle)
             /\ MarchOfRay.tag = "Closest" ) => call.result = Inf

C15_Witness ==
    /\ RayHitCall
    /\ KindOfSelf = "Sphere"
    /\ call.ray = Ray(P(0, 6, 0), Down, One)
    /\ local_ray_distance_with_sphere(colliders[call.self].collider.radius,
           Ray3d(call.ray.origin, call.ray.direction), call.solid) = Some(Two)
    /\ call.result = Inf
\* ---- march_edge

MarchCall == call.op = "march_edge"

\* ceil(length / MINIMUM_STEP), and 0 for a length that is not positive
IterationBound(length) ==
    IF FGt(length, Zero) /\ IsFinite(length)
    THEN -((-(length.n * MINIMUM_STEP.d)) \div (length.d * MINIMUM_STEP.n))
    ELSE 0

\* C16: for a field of finite distances, any radius and any finite length,
\* march_edge runs at most ceil(length / MINIMUM_STEP) iterations (none
\* when length <= 0) because travel grows by at least MINIMUM_STEP in each;
\* the field is never sampled at a travel >= length, and the final travel
\* exceeds length by less than the last step.
C16_MarchBounded ==
    MarchCall =>
        /\ Len(call.samples) <= IterationBound(call.length)
        /\ \A k \in 1..Len(call.samples) : FLt(call.samples[k][1], call.length)
        /\ \A k \in 1..(Len(call.samples) - 1) :
               FGe(FSub(call.samples[k + 1][1], call.samples[k][1]), MINIMUM_STEP)
        /\ (call.result.tag = "Closest" /\ call.samples # <<>>) =>
               FLt(FSub(call.traveled, call.length),
                   FSub(call.traveled, call.samples[Len(call.samples)][1]))
\* the call's k-th sample is within the radius
SampleHits(k) == FLe(call.samples[k][2], call.radius)

\* C17: march_edge returns Hit(t, d) exactly when some sample has a field
\* distance <= radius, with t the travel of the first such sample
\* (0 <= t < length) and d the distance read there; otherwise it returns
\* Closest(t, d) with d the least distance over the samples (each > radius)
\* and t the travel of the earliest sample attaining it, and
\* Closest(0, +infinity) when no sample was taken (length <= 0).
C17_MarchResult ==
    (MarchCall /\ call.result # Running) =>
        /\ call.result.tag = "Hit" <=> \E k \in 1..Len(call.samples) : SampleHits(k)
        /\ call.result.tag = "Hit" =>
               \E k \in 1..Len(call.samples) :
                   /\ SampleHits(k)
                   /\ \A j \in 1..(k - 1) : ~SampleHits(j)
                   /\ call.result = Hit(call.samples[k][1], call.samples[k][2])
                   /\ FLe(Zero, call.samples[k][1])
                   /\ FLt(call.samples[k][1], call.length)
        /\ (call.result.tag = "Closest" /\ call.samples # <<>>) =>
               \E k \in 1..Len(call.samples) :
                   /\ call.result = Closest(call.samples[k][1], call.samples[k][2])
                   /\ \A j \in 1..Len(call.samples) :
                          /\ FGt(call.samples[j][2], call.radius)
                          /\ FLe(call.samples[k][2], call.samples[j][2])
                   /\ \A j \in 1..(k - 1) :
                          FGt(call.samples[j][2], call.samples[k][2])
        /\ call.samples = <<>> =>
               /\ call.result = Closest(Zero, Inf)
               /\ FLe(call.length, Zero)

C17_Witness ==
    /\ MarchCall
    /\ call.sdf = "floor"
    /\ Len(call.samples) = 4
    /\ \A k \in 1..4 : call.samples[k][2] = One
    /\ call.result = Closest(Zero, One)
\* ---- the marching budget of capsule against implicit surface

\* the capsule and the surface of the call, whichever way round
CapsuleIsSelf == KindOfSelf = "Capsule"
CallCapsule ==
    ScaledCapsule(colliders[IF CapsuleIsSelf THEN call.self ELSE call.other])
CallSurface == colliders[IF CapsuleIsSelf THEN call.other ELSE call.self]
CapsulePosition == IF CapsuleIsSelf THEN call.position1 ELSE call.position2
CapsuleRotation == IF CapsuleIsSelf THEN call.rotation1 ELSE call.rotation2
SurfacePosition == IF CapsuleIsSelf THEN call.position2 ELSE call.position1
SurfaceRotation == IF CapsuleIsSelf THEN call.rotation2 ELSE call.rotation1

\* the capsule's centre and axis direction in the surface's own frame
LocalCentre ==
    VDivS(Rotate(Inverse(SurfaceRotation), VSub(CapsulePosition, SurfacePosition)),
          CallSurface.scale)
LocalUp ==
    VDivS(Rotate(Inverse(SurfaceRotation), Rotate(CapsuleRotation, VY)),
          CallSurface.scale)

AxisLength == FMul(Two, CallCapsule.half_length)

\* the march from the bottom endpoint, bounded by the axis length
FirstMarch ==
    march_edge(FieldOf(CallSurface.collider.handle),
               VSub(LocalCentre, VScale(LocalUp, CallCapsule.half_length)),
               LocalUp, CallCapsule.radius, AxisLength)

\* the march from the top endpoint, the other way, bounded by `bound`
MarchFromTop(bound) ==
    march_edge(FieldOf(CallSurface.collider.handle),
               VAdd(LocalCentre, VScale(LocalUp, CallCapsule.half_length)),
               VNeg(LocalUp), CallCapsule.radius, bound)

\* what the first march leaves to the second
SecondBound(first) ==
    IF first.tag = "Hit" THEN FSub(AxisLength, first.toi) ELSE Zero

\* a march's result is within the margin: its contact is emitted
Emits(res) == FLt(res.dist, FAdd(CallCapsule.radius, call.pred_dist))

\* the call ran both marches: the reference resolved and the centre is near
Marched ==
    /\ ManifoldsCall
    /\ CapsuleSurfaceCall
    /\ ~panicked
    /\ Resolves(call.context, CallSurface.collider.handle)
    /\ FLe(SdfDistance(FieldOf(CallSurface.collider.handle), LocalCentre),
           FAdd(FAdd(CallCapsule.radius, CallCapsule.half_length), call.pred_dist))

BudgetRule(first, second) ==
    /\ Len(contacts) = (IF Emits(first) THEN 1 ELSE 0)
                           + (IF Emits(second) THEN 1 ELSE 0)
    /\ first.tag = "Closest" => second = Closest(Zero, Inf) /\ ~Emits(second)
    /\ FLe(FAdd(first.toi, second.toi), AxisLength)

\* C18: the first march runs from the bottom endpoint with bound
\* 2 * half_length; after a Hit at travel t1 the second march, from the top
\* endpoint the other way, gets bound 2 * half_length - t1, and after a
\* Closest it gets bound 0 and contributes no contact.  The two reported
\* travels sum to at most 2 * half_length, and each march emits at most
\* one contact.
C18_MarchBudget ==
    Marched => BudgetRule(FirstMarch, MarchFromTop(SecondBound(FirstMarch)))

C18_Witness ==
    /\ Marched
    /\ FirstMarch.tag = "Closest"
    /\ Emits(FirstMarch)
    /\ CapsuleRotation = RotZ90
    /\ Len(contacts) = 1
\* ---- the segment closest-point solver

ClosestCall == call.op = "closest_points_on_segments"

InUnit(x) == FLe(Zero, x) /\ FLe(x, One)

\* the clamped projection of the point p onto the segment seg
Projection(p, seg) ==
    FClamp(FDiv(Dot(VSub(p, seg[1]), seg[2]), LengthSquared(seg[2])), Zero, One)

CapsulesCall == ManifoldsCall /\ KindOfSelf = "Capsule" /\ KindOfOther = "Capsule"

\* a capsule's axis as the segment (bottom, bottom to top)
AxisSegment(capsule, position, rotation) ==
    <<VSub(position, VScale(Rotate(rotation, VY), capsule.half_length)),
      VScale(VScale(Rotate(rotation, VY), capsule.half_length), Two)>>

Axis1 == AxisSegment(ScaledCapsule(colliders[call.self]), call.position1, call.rotation1)
Axis2 == AxisSegment(ScaledCapsule(colliders[call.other]), call.position2, call.rotation2)
AxisPoint(seg, s) == VAdd(seg[1], VScale(seg[2], s))
ClosestOfCall == closest_points_on_segments(Axis1, Axis2)
Wp1 == AxisPoint(Axis1, ClosestOfCall[1])
Wp2 == AxisPoint(Axis2, ClosestOfCall[2])

\* two parallel axes, the second offset perpendicularly to them by less
\* than the sum of the radii
ParallelAxes ==
    /\ Rotate(call.rotation1, VY) = Rotate(call.rotation2, VY)
    /\ call.position1 # call.position2
    /\ Dot(VSub(call.position2, call.position1), Rotate(call.rotation1, VY)) = Zero
    /\ FLt(Distance(call.position1, call.position2),
           FAdd(WorldRadius(colliders[call.self]), WorldRadius(colliders[call.other])))

\* C20: the capsule/capsule contact (count, point, normal, penetration) is
\* the sphere/sphere contact of a sphere of radius r1 at wp1 and one of
\* radius r2 at wp2, the closest points of the two axis segments, so that
\* point = wp1 + normal * (r1 + dist/2); two parallel axes offset
\* perpendicularly by p < r1 + r2 give exactly one contact with penetration
\* r1 + r2 - p.
C20_CapsuleCapsule ==
    CapsulesCall =>
        /\ SphereSphereRule(WorldRadius(colliders[call.self]),
                            WorldRadius(colliders[call.other]),
                            Wp1, Wp2, Distance(Wp1, Wp2), call.pred_dist)
        /\ ParallelAxes =>
               /\ Len(contacts) = 1
               /\ contacts[1].penetration =
                      FSub(FAdd(WorldRadius(colliders[call.self]),
                                WorldRadius(colliders[call.other])),
                           Distance(call.position1, call.position2))

\* ---- rays that miss the sphere

\* b^2 - c of the call's ray, with b = origin . direction and
\* c = |origin|^2 - radius^2
Discriminant ==
    FSub(FMul(Dot(call.ray.origin, call.ray.direction),
              Dot(call.ray.origin, call.ray.direction)),
         FSub(LengthSquared(call.ray.origin), FMul(call.radius, call.radius)))

\* C21: local_ray_distance_with_sphere with the origin outside the sphere
\* returns None whenever the ray's line does not meet the sphere
\* (b^2 - c < 0), and every distance t it returns places
\* origin + t * direction on the sphere.
C21_RayMisses ==
    (RaySphereCall /\ OriginOutside) =>
        /\ FLt(Discriminant, Zero) => call.result = None
        /\ call.result.some =>
               OnSphere(VAdd(call.ray.origin,
                             VScale(call.ray.direction, call.result.value)),
                        call.radius)

\* ---- the origin-inside shortcut of the capsule ray test

RayCapsuleCall == call.op = "local_ray_distance_with_capsule"

\* the local axis segment of the call's capsule
LocalAxis ==
    <<Vec(Zero, FNeg(call.cap.half_length), Zero),
      Vec(Zero, FMul(Two, call.cap.half_length), Zero)>>

\* the origin is within the radius of the axis segment
TrulyInside ==
    FLe(PointSegmentSquared(call.ray.origin, LocalAxis),
        FMul(call.cap.radius, call.cap.radius))

\* x^2 + z^2 - radius^2 of the origin: the sign of the code's c
HorizontalExcess ==
    FSub(FAdd(FMul(call.ray.origin[1], call.ray.origin[1]),
              FMul(call.ray.origin[3], call.ray.origin[3])),
         FMul(call.cap.radius, call.cap.radius))

\* the code's is_origin_inside for the call
TakesInsideBranch ==
    local_ray_capsule_origin_inside(call.cap, call.ray,
        FMul(call.cap.radius, call.cap.radius), HorizontalExcess)

\* C22: local_ray_distance_with_capsule in solid mode takes the
\* origin-inside shortcut (and returns 0 from it) only when the ray origin
\* is within the capsule radius of the axis segment, in x, y and z.
C22_OriginInside ==
    (RayCapsuleCall /\ call.solid /\ TakesInsideBranch) =>
        /\ call.result = Some(Zero)
        /\ TrulyInside

\* ---- the range of a swept-sphere cast

ShapeCastCall == call.op = "shape_cast"

\* C23: whenever shape_cast returns a hit for a range (t0, t1) with
\* 0 <= t0 <= t1, the hit's distance d satisfies t0 <= d <= t1, for sphere,
\* capsule and implicit-surface targets alike.
C23_CastRange ==
    (ShapeCastCall /\ call.result.some) =>
        /\ FLe(call.range[1], call.result.distance)
        /\ FLe(call.result.distance, call.range[2])

\* ---- uniform scaling against implicit surfaces

\* the factor k > 0
ScaleFactor == Two

\* a collider with k times the size: the surface's scale, or the
\* primitive's radius and half_length, multiplied by k
ScaledUp(col) ==
    IF col.collider.kind = "Arbitrary"
    THEN [col EXCEPT !.scale = FMul(@, ScaleFactor)]
    ELSE [col EXCEPT !.collider.radius = FMul(@, ScaleFactor),
                     !.collider.half_length = FMul(@, ScaleFactor)]

\* the same call with sizes, translations and pred_dist multiplied by k
CallScaledUp ==
    contact_manifolds_with_context(ScaledUp(colliders[call.self]),
        ScaledUp(colliders[call.other]),
        VScale(call.position1, ScaleFactor), call.rotation1,
        VScale(call.position2, ScaleFactor), call.rotation2,
        FMul(call.pred_dist, ScaleFactor), <<>>, call.context)

SphereSurfaceCall ==
    \/ KindOfSelf = "Sphere" /\ KindOfOther = "Arbitrary"
    \/ KindOfSelf = "Arbitrary" /\ KindOfOther = "Sphere"

\* the contacts are those of the original up to the factor k
Equivariant(scaled) ==
    /\ Len(scaled) = Len(contacts)
    /\ \A k \in 1..Len(scaled) :
           /\ scaled[k].normal = contacts[k].normal
           /\ scaled[k].penetration = FMul(contacts[k].penetration, ScaleFactor)

\* C24: multiplying the surface's scale, the primitive's radius and
\* half_length, both translations and pred_dist by k > 0 gives the same
\* number of contacts with the same normals and penetrations multiplied
\* by k, for sphere/implicit surface and capsule/implicit surface.
C24_ScaleEquivariance ==
    (ManifoldsCall /\ ~panicked /\ (SphereSurfaceCall \/ CapsuleSurfaceCall)) =>
        Equivariant(CallScaledUp.manifolds)

====
